---- MODULE Spec2Model ----
(***************************************************************************)
(* The guarded step pipeline of the synthetic monitoring scripts           *)
(* itrans.py, itrans_zd.py, lks.py and test_dl.py: the entry point         *)
(* (main / run_test_cycle), the per-step runner (inline try blocks,        *)
(* execute_step, execute_step_with_retry, log_test_result with             *)
(* retry_on_exception), the failure handlers, the critical handler, the    *)
(* finally block and the process exit, over the TestResult accumulator.    *)
(* The browser and Telegram are the environment: every driver call and     *)
(* every alert delivery chooses its outcome nondeterministically.          *)
(***************************************************************************)
EXTENDS Integers, Sequences, FiniteSets, TLC

Scripts == {"itrans", "itrans_zd", "lks", "test_dl"}

BannerScripts == {"itrans", "itrans_zd"}

(* Number of Steps of each script's literal pipeline. *)
ItransNumSteps == 5

ItransZdNumSteps == 5

LksNumSteps == 5

DlNumSteps == 14

NumSteps(s) ==
    CASE s = "itrans" -> ItransNumSteps
      [] s = "itrans_zd" -> ItransZdNumSteps
      [] s = "lks" -> LksNumSteps
      [] s = "test_dl" -> DlNumSteps

(* execute_step_with_retry(..., max_retries=2) *)
LksMaxRetries == 2

(* @retry_on_exception(retries=2) on test_08 and test_09 *)
DlRetries == 2

DlRetriedSteps == {8, 9}

(* Mutation: lks loops over range(max_retries) instead of                  *)
(* range(max_retries + 1).                                                 *)
MaxAttempts_NoPlusOne(s, k) ==
    CASE s = "lks" -> LksMaxRetries
      [] s = "test_dl" /\ k \in DlRetriedSteps -> DlRetries
      [] OTHER -> 1

(* Attempts a Step's action gets: lks runs range(max_retries + 1); test_dl  *)
(* decorates two steps with retry_on_exception; everything else runs once.  *)
MaxAttempts(s, k) ==
    CASE s = "lks" -> LksMaxRetries + 1
      [] s = "test_dl" /\ k \in DlRetriedSteps -> DlRetries
      [] OTHER -> 1

(* Ways a Step's action of lks and test_dl can raise (the steps of itrans   *)
(* and itrans_zd are run call by call, see GuardedCall).  test_dl checks the credentials inside  *)
(* test_01_login and opens the site with open_site_with_retries there.     *)
FailCauses(s, k, creds) ==
    CASE s = "lks" -> {"timeout"}
      [] s = "test_dl" ->
            IF k = 1
            THEN {"open_site", "timeout"} \cup (IF creds THEN {} ELSE {"no_credentials"})
            ELSE {"timeout"}

(* Outcomes of a Step's action. *)
StepOutcomes(s, k, creds) ==
    FailCauses(s, k, creds) \cup
    (IF s = "test_dl" /\ k = 1 /\ ~creds THEN {} ELSE {"pass"})

----------------------------------------------------------------------------
(* Exceptions, messages and error texts. *)

NoExc == [kind |-> "none", step |-> 0, attempt |-> 0, cause |-> "none"]

Exc(kind, k, a, cause) == [kind |-> kind, step |-> k, attempt |-> a, cause |-> cause]

NoError == [prefix |-> "none", step |-> 0, e |-> NoExc]

EmptyMsg == [kind |-> "empty", step |-> 0]

----------------------------------------------------------------------------
(* class TestResult *)

TestResultInit ==
    [ start_time     |-> 0,
      steps          |-> << >>,
      success        |-> TRUE,
      status         |-> "1",
      message        |-> EmptyMsg,
      error          |-> NoError,
      screenshot     |-> 0,
      order_id       |-> 0,
      selected_route |-> "",
      total_duration |-> -1 ]

(* Mutation: the status string is derived from success the wrong way round. *)
StatusOf_Inverted(success) == IF success THEN "0" ELSE "1"

StatusOf(success) == IF success THEN "1" ELSE "0"

(* steps is a dict keyed by the step name, kept in insertion order. *)
PutStep(steps, entry) ==
    IF \E i \in 1..Len(steps) : steps[i].name = entry.name
    THEN [i \in 1..Len(steps) |->
             IF steps[i].name = entry.name THEN entry ELSE steps[i]]
    ELSE Append(steps, entry)

(* Mutation: a Failed record clears success and leaves status alone. *)
add_step_KeepsStatus(tr, name, status, duration) ==
    LET tr1 == [tr EXCEPT !.steps =
                    PutStep(tr.steps, [name |-> name, status |-> status,
                                       duration |-> duration])]
    IN IF status = "0" THEN [tr1 EXCEPT !.success = FALSE] ELSE tr1

add_step(tr, name, status, duration) ==
    LET tr1 == [tr EXCEPT !.steps =
                    PutStep(tr.steps, [name |-> name, status |-> status,
                                       duration |-> duration])]
    IN IF status = "0"
       THEN [tr1 EXCEPT !.success = FALSE, !.status = "0"]
       ELSE tr1

set_screenshot_b64(tr, b64) == [tr EXCEPT !.screenshot = b64]

(* test_dl's TestResult.set_order_id; 0 stands for None. *)
set_order_id(tr, order_id) == [tr EXCEPT !.order_id = order_id]

finalize(tr, success, message, error, end) ==
    [tr EXCEPT !.success = success,
               !.status = StatusOf(success),
               !.message = message,
               !.error = error,
               !.total_duration = end - tr.start_time]

(* lks.py leaves the error key out of the report when the error is None. *)
to_dict(s, tr) ==
    [ success        |-> tr.success,
      status         |-> tr.status,
      message        |-> tr.message,
      error          |-> tr.error,
      has_error_key  |-> (s # "lks" \/ tr.error # NoError),
      total_duration |-> tr.total_duration,
      steps          |-> tr.steps,
      screenshot     |-> tr.screenshot,
      order_id       |-> tr.order_id,
      selected_route |-> tr.selected_route ]

----------------------------------------------------------------------------
(* The statements of each handler, in source order. *)

(* Mutation: the handler alerts before it gathers the diagnostics. *)
HandlerOps_AlertFirst(s) ==
    <<"alert", "capture", "add_step", "attach", "finalize", "print", "return">>

HandlerOps(s) ==
    CASE s \in BannerScripts ->
            <<"capture", "add_step", "attach", "alert", "finalize", "print", "return">>
      [] s = "lks" ->
            <<"capture", "attach", "save_file", "add_step", "alert", "finalize",
              "print", "return">>
      [] s = "test_dl" ->
            <<"capture", "save_file", "alert", "add_step", "attach", "set_message",
              "raise">>

(* Mutation: the critical handler attaches the screenshot after finalize. *)
CriticalOps_AttachAfterFinalize(s) ==
    <<"capture", "alert", "finalize", "attach", "print", "return">>

CriticalOps(s) ==
    CASE s \in BannerScripts ->
            <<"capture", "attach", "alert", "finalize", "print", "return">>
      [] s = "lks" ->
            <<"capture", "attach", "save_file", "alert", "finalize", "print", "return">>
      [] s = "test_dl" ->
            <<"capture", "attach", "finalize", "print", "return">>

(* Mutation: the success path returns (and so runs the finally clause)     *)
(* before it finalizes and prints.                                         *)
SuccessOps_ReturnFirst(s) == <<"return", "finalize", "print">>

SuccessOps(s) == <<"finalize", "print", "return">>

(* test_dl: save_screenshot('test_error_open_site', ...) and the raise at   *)
(* the end of open_site_with_retries.                                       *)
OpenSiteOps(s) == <<"capture", "save_file", "alert", "raise">>

Blocks == {"handler", "critical", "success", "open_site"}

Ops(s, blk) ==
    CASE blk = "handler" -> HandlerOps(s)
      [] blk = "critical" -> CriticalOps(s)
      [] blk = "success" -> SuccessOps(s)
      [] blk = "open_site" -> OpenSiteOps(s)

IndexOf(seq, op) == CHOOSE i \in 1..Len(seq) : seq[i] = op

(* Mutation: no capture is wrapped in a try. *)
CaptureGuarded_Never(s, blk) == FALSE

(* Whether the screenshot capture of blk sits inside a try whose except    *)
(* swallows the error.  execute_step and the inline handlers of itrans     *)
(* call get_screenshot_b64 bare; save_screenshot re-raises.                *)
CaptureGuarded(s, blk) ==
    CASE blk = "handler" -> s \notin BannerScripts
      [] blk = "critical" -> TRUE
      [] OTHER -> FALSE

(* Index of the first statement after the try (or `if driver`) block that  *)
(* encloses the capture.                                                   *)
AfterCaptureTry(s, blk) ==
    CASE blk = "handler" -> IndexOf(HandlerOps(s), "add_step")
      [] blk = "critical" /\ s = "test_dl" -> IndexOf(CriticalOps(s), "finalize")
      [] blk = "critical" -> IndexOf(CriticalOps(s), "alert")
      [] OTHER -> Len(Ops(s, blk))

(* The handler an exception raised in blk reaches; "uncaught" when no      *)
(* except clause encloses blk.                                             *)
RaiseTarget(blk) ==
    CASE blk \in {"step_action", "open_site"} -> "handler"
      [] blk \in {"main", "handler", "success"} -> "critical"
      [] OTHER -> "uncaught"

(* send_telegram_alert / send_screenshot_to_telegram: what a delivery can  *)
(* run into, and whether that reaches the caller as an exception.          *)
AlertOutcomes(telegram) ==
    IF telegram
    THEN {"sent", "http_error", "network_exception", "bad_screenshot"}
    ELSE {"no_token"}

(* Mutation: the dispatcher has no try/except around the delivery. *)
AlertRaises_NoTry(s, outcome) == outcome \in {"network_exception", "bad_screenshot"}

AlertRaises(s, outcome) == FALSE

(* Mutation: a failed refresh leaves the retry loop. *)
RecoveryRaises_OnFail(s, outcome) == outcome = "fail"

(* The recovery sits in its own try/except: a failed refresh is swallowed. *)
RecoveryRaises(s, outcome) == FALSE

(* Mutation: the refresh is performed after every failed attempt, the last  *)
(* one included.                                                           *)
RecoversAfter_Always(s, k, a) == TRUE

(* Whether failed attempt a of Step k is followed by the recovery and       *)
(* another attempt: lks tests `attempt < max_retries` (0-based),            *)
(* retry_on_exception raises when `attempt == retries - 1`.                 *)
RecoversAfter(s, k, a) == a < MaxAttempts(s, k)

(* Mutation: the retry loop remembers the first failure and raises that.   *)
RetryRaises_First(first, last) == first

(* The exception a retried action surfaces once its attempts are used up:  *)
(* lks reports the `e` bound by the except clause of the last iteration,   *)
(* retry_on_exception re-raises it with a bare `raise`.                     *)
RetryRaises(first, last) == last

(* Mutation: the pipeline list skips an entry. *)
NextStepNo_Skip(k) == k + 2

(* The step that follows step k in the pipeline. *)
NextStepNo(k) == k + 1

(* Mutation: the failure paths return the success value. *)
ReturnValue_Success(s, blk) == IF s = "test_dl" THEN "True" ELSE "0"

(* return value of main() / run_test_cycle() and the exit code made of it. *)
ReturnValue(s, blk) ==
    IF s = "test_dl"
    THEN (IF blk = "success" THEN "True" ELSE "False")
    ELSE (IF blk = "success" THEN "0" ELSE "1")

(* Mutation: the failure paths return from outside the try/finally. *)
ReturnTarget_SkipFinally(s, blk) == IF blk = "success" THEN "finally" ELSE "exit"

(* Where a return statement of blk continues: every return sits inside    *)
(* the try whose finally releases the driver.                              *)
ReturnTarget(s, blk) == "finally"

ExitCode(rv) == IF rv \in {"0", "True"} THEN 0 ELSE 1

----------------------------------------------------------------------------
(* Strings are sequences of characters; a Cyrillic letter is written as a  *)
(* token ("cyr_o" is the small letter, "CYR_O" the capital).               *)

(* str.lower() on one character. *)
LowerCase(c) ==
    CASE c = "A" -> "a" [] c = "E" -> "e" [] c = "L" -> "l" [] c = "O" -> "o"
      [] c = "R" -> "r" [] c = "T" -> "t"
      [] c = "CYR_A" -> "cyr_a" [] c = "CYR_B" -> "cyr_b" [] c = "CYR_I" -> "cyr_i"
      [] c = "CYR_K" -> "cyr_k" [] c = "CYR_O" -> "cyr_o" [] c = "CYR_SH" -> "cyr_sh"
      [] c = "CYR_P" -> "cyr_p" [] c = "CYR_R" -> "cyr_r" [] c = "CYR_Z" -> "cyr_z"
      [] c = "CYR_L" -> "cyr_l"
      [] OTHER -> c

lower(str) == [i \in 1..Len(str) |-> LowerCase(str[i])]

(* Python's `sub in str`. *)
Contains(sub, str) ==
    \E i \in 1..(Len(str) - Len(sub) + 1) : SubSeq(str, i, i + Len(sub) - 1) = sub

(* "alert-error" *)
AlertErrorMarker == <<"a", "l", "e", "r", "t", "-", "e", "r", "r", "o", "r">>

(* The word for "error" the banner texts carry. *)
ErrorWord == <<"cyr_o", "cyr_sh", "cyr_i", "cyr_b", "cyr_k", "cyr_a">>

(* "an error occurred": the second text probe of raise_if_error_banner. *)
ErrorPhrase ==
    <<"cyr_p", "cyr_r", "cyr_o", "cyr_i", "cyr_z", "cyr_o", "cyr_sh", "cyr_l", "cyr_a",
      " ">> \o ErrorWord

(* `"alert-error" in classes` and the two text probes, on the lowered      *)
(* class attribute and the lowered text of an alert.                       *)
is_error_by_class(a) == Contains(AlertErrorMarker, lower(a.class))

is_error_by_text(a) ==
    Contains(ErrorWord, lower(a.text)) \/ Contains(ErrorPhrase, lower(a.text))

(* The page as a banner query finds it: whether the query itself works,    *)
(* and the alerts of `.errors-container .alert.show`, each with what       *)
(* is_displayed(), get_attribute("class") and .text answer; `fails` names  *)
(* the one of the three that raises a WebDriverException on that alert     *)
(* ("none" when all answer).                                               *)

NoAlert == [query |-> "ok", alerts |-> << >>]

ErrorBanner ==
    [query |-> "ok",
     alerts |-> <<[displayed |-> TRUE,
                   class |-> <<"a", "l", "e", "r", "t", " ">> \o AlertErrorMarker,
                   text |-> <<"CYR_O">> \o Tail(ErrorWord),
                   fails |-> "none"]>>]

QueryFails == [query |-> "driver_error", alerts |-> << >>]

Pages == {NoAlert, ErrorBanner, QueryFails}

IsErrorAlert(a) == a.displayed /\ (is_error_by_class(a) \/ is_error_by_text(a))

(* A visible matching banner is on the page and the query can see it. *)
BannerVisible(page) ==
    /\ page.query = "ok"
    /\ \E i \in 1..Len(page.alerts) : IsErrorAlert(page.alerts[i])

(* Mutation: the WebDriverException leaves raise_if_error_banner. *)
on_WebDriverException_Propagates == "driver_error"

(* `except WebDriverException: pass`: the function returns None. *)
on_WebDriverException == "ok"

(* `for alert in visible_alerts`: the alerts are read in order; the first  *)
(* one whose reading raises, or that matches, ends the loop.               *)
RECURSIVE scan_alerts(_)
scan_alerts(visible_alerts) ==
    IF visible_alerts = << >> THEN "ok"
    ELSE LET alert == Head(visible_alerts)
         IN IF alert.fails # "none" THEN on_WebDriverException
            ELSE IF is_error_by_class(alert) \/ is_error_by_text(alert) THEN "banner"
            ELSE scan_alerts(Tail(visible_alerts))

(* ItransTest.raise_if_error_banner: "banner" when it raises its own       *)
(* Exception, "ok" when it returns.  is_displayed() is asked of every      *)
(* alert before the first one is read.                                     *)
raise_if_error_banner(flag, drv, page) ==
    IF ~flag THEN "ok"
    ELSE IF ~drv THEN "ok"
    ELSE IF page.query # "ok" THEN on_WebDriverException
    ELSE IF \E i \in 1..Len(page.alerts) : page.alerts[i].fails = "is_displayed"
         THEN on_WebDriverException
    ELSE scan_alerts(SelectSeq(page.alerts, LAMBDA el : el.displayed))

(* ItransTest.wait_element: presence wait, then the banner check on both   *)
(* outcomes.                                                                *)
wait_element(flag, drv, r) ==
    IF raise_if_error_banner(flag, drv, r.page) = "banner" THEN "banner"
    ELSE IF r.outcome = "ok" THEN "ok"
    ELSE "not_found"

(* ItransTest.element_is_present followed by the caller's                   *)
(* `if not ...: raise Exception(...)`.                                      *)
element_is_present(flag, drv, r) ==
    IF raise_if_error_banner(flag, drv, r.page) = "banner" THEN "banner"
    ELSE IF r.outcome = "ok" THEN "ok"
    ELSE "tab_not_found"

(* itrans_zd's ItransTest.wait_visible_by_xpath: the banner check runs     *)
(* only when the element became visible.                                    *)
wait_visible_by_xpath(flag, drv, r) ==
    IF r.outcome = "ok"
    THEN raise_if_error_banner(flag, drv, r.page)
    ELSE "not_visible"

(* One iteration of a step's subtab loop: a visibility wait and the banner *)
(* check inside `try ... except TimeoutException: missing_tabs.append`.    *)
subtab_check(flag, drv, r) ==
    IF r.outcome = "ok"
    THEN raise_if_error_banner(flag, drv, r.page)
    ELSE "missing"

(* A bare WebDriverWait(...).until(...) of a step. *)
raw_wait(r) == IF r.outcome = "ok" THEN "ok" ELSE "timeout"

(* click_element(..., retries=2) *)
ClickRetries == 2

(* Whether the script's guarded calls consult the banner check at all:     *)
(* LksTest and TestIsales have no raise_if_error_banner.                   *)
HasBannerCheck(s) == s \in BannerScripts

(* Whether click_element falls back to a script click when the native      *)
(* click raises: TestIsales.click_element calls element.click() bare.       *)
HasScriptClick(s) == s # "test_dl"

(* Mutation: a timed-out presence wait reaches click_element's except      *)
(* clause as a TimeoutException.                                           *)
PresenceTimeoutCaught_Always(s) == TRUE

(* wait_element turns the TimeoutException of the presence wait into a     *)
(* plain Exception, which click_element's                                  *)
(* `except (StaleElementReferenceException, TimeoutException)` lets pass.  *)
PresenceTimeoutCaught(s) == FALSE

(* One iteration of click_element's loop, the call having been made with   *)
(* `retries`.  "retry" is the except clause for                            *)
(* StaleElementReferenceException / TimeoutException on an iteration that  *)
(* is not the last; the failures of wait_element and of the banner check   *)
(* are plain Exceptions and leave the loop.  r.click is what the clicks    *)
(* run into: "native" (element.click() works), "script" (it raises, the    *)
(* script click works), "stale" / "error" (the last click tried raises a   *)
(* StaleElementReferenceException / another error).                        *)
click_iteration(s, flag, drv, r, try, retries) ==
    LET on == flag /\ HasBannerCheck(s)
        w == wait_element(on, drv, [outcome |-> r.presence, page |-> r.page1])
        caught == IF try = retries THEN "click_failed" ELSE "retry"
    IN IF w = "not_found" /\ PresenceTimeoutCaught(s) THEN caught
       ELSE IF w # "ok" THEN w
       ELSE IF r.wait2 # "ok" THEN caught
       ELSE IF r.click = "stale" THEN caught
       ELSE IF r.click = "error" THEN "webdriver"
       ELSE IF r.click = "script" /\ ~HasScriptClick(s) THEN "webdriver"
       ELSE raise_if_error_banner(on, drv, r.page2)

(* Whether the iteration performed a click (native or by script). *)
click_performed(s, flag, drv, r) ==
    LET on == flag /\ HasBannerCheck(s)
    IN /\ wait_element(on, drv, [outcome |-> r.presence, page |-> r.page1]) = "ok"
       /\ r.wait2 = "ok"
       /\ r.click = "native" \/ (r.click = "script" /\ HasScriptClick(s))

(* Whether the iteration got as far as element.click(). *)
click_reached(s, flag, drv, r) ==
    LET on == flag /\ HasBannerCheck(s)
    IN /\ wait_element(on, drv, [outcome |-> r.presence, page |-> r.page1]) = "ok"
       /\ r.wait2 = "ok"

(* One iteration of click_element as the steps call it (retries=2). *)
click_element(s, flag, drv, r, try) == click_iteration(s, flag, drv, r, try, ClickRetries)

(* element_is_present(xpath, timeout) of script s as a function: "True",   *)
(* "False", or the failure that leaves it.  ItransTest catches the         *)
(* TimeoutException of its own presence wait and runs the banner check on  *)
(* both outcomes; LksTest and TestIsales call wait_element, whose          *)
(* "element not found" is a plain Exception that                           *)
(* `except (TimeoutException, WebDriverException)` lets pass.              *)
element_is_present_call(s, flag, drv, r) ==
    IF HasBannerCheck(s)
    THEN IF r.outcome = "driver_error" THEN "webdriver"
         ELSE IF raise_if_error_banner(flag, drv, r.page) = "banner" THEN "banner"
         ELSE IF r.outcome = "ok" THEN "True"
         ELSE "False"
    ELSE IF r.outcome = "driver_error" THEN "False"
         ELSE LET w == wait_element(FALSE, drv, r)
              IN IF w = "ok" THEN "True" ELSE w

(* open_site_with_retries(url, retries=3, wait=10) *)
OpenSiteRetries == 3

(* One iteration of open_site_with_retries' loop: "return" when the header *)
(* link is found, "next" when driver.get or the probe raises or the probe  *)
(* answers False (`except Exception` logs and the loop goes on).           *)
open_site_iteration(r) ==
    IF r.get # "ok" THEN "next"
    ELSE IF element_is_present_call("test_dl", FALSE, TRUE,
                                    [outcome |-> r.outcome, page |-> NoAlert]) = "True"
         THEN "return"
    ELSE "next"

(* The parts of a formatted message: literal text, an interpolated string  *)
(* (a locator, a description, an exception's text) or an interpolated      *)
(* number.                                                                 *)
Lit(t) == [lit |-> t]
Str(v) == [str |-> v]
Num(n) == [num |-> n]

Includes(part, msg) == \E i \in 1..Len(msg) : msg[i] = part

(* The message of the Exception click_element raises on its last           *)
(* iteration.  itrans_zd formats `description` and the locator only; the   *)
(* others format `retries`, the locator and the caught exception.          *)
click_failure_message(s, retries, xpath, description, cause) ==
    IF s = "itrans_zd"
    THEN <<Lit("click error")>>
         \o (IF description # "" THEN <<Lit(" \""), Str(description), Lit("\"")>> ELSE << >>)
         \o <<Lit(" locator = "), Str(xpath), Lit(".")>>
    ELSE <<Lit("click failed after "), Num(retries), Lit(" attempts: "), Str(xpath),
           Lit(". Cause: "), Str(cause)>>

(* What click_element's except clause caught in the iteration. *)
caught_exception(r) ==
    IF r.wait2 # "ok" THEN "TimeoutException" ELSE "StaleElementReferenceException"

WaitResponses == [outcome : {"ok", "timeout"}, page : Pages]

(* itrans_zd waits for visibility before clickability. *)
ClickResponses(s) ==
    [presence : {"ok", "timeout"},
     page1    : Pages,
     wait2    : {"ok", "clickable_timeout"} \cup
                (IF s = "itrans_zd" THEN {"visibility_timeout"} ELSE {}),
     page_t   : {NoAlert, ErrorBanner},
     click    : {"native", "script", "stale", "error"},
     page2    : Pages]

(* The calls of each step function of itrans.py and itrans_zd.py, in       *)
(* source order; a loop over a literal subtab list is unrolled.            *)
(*   driver        a plain driver call (get, send_keys)                    *)
(*   opt_click     click_element inside `try ... except Exception: pass`   *)
(*   is_present    `if not element_is_present(...): raise Exception(...)`   *)
(*   missing_check `if missing_tabs: raise Exception(...)`                  *)
RECURSIVE Rep(_, _)
Rep(seq, n) == IF n = 0 THEN << >> ELSE seq \o Rep(seq, n - 1)

OpenTab == <<"is_present", "click">>

step_open_and_login ==
    <<"driver", "click", "wait_element", "driver", "wait_element", "driver", "click",
      "raw_wait">>

step_open_coordinator_module_and_verify_tabs ==
    <<"opt_click", "click">> \o OpenTab \o Rep(<<"subtab_check">>, 1)
        \o <<"missing_check">> \o Rep(<<"click">>, 1)

step_open_sales_module_and_verify_tabs ==
    OpenTab \o Rep(<<"subtab_check">>, 2) \o <<"missing_check">> \o Rep(<<"click">>, 3)

step_open_analytics_module_and_verify_tabs ==
    OpenTab \o Rep(<<"subtab_check">>, 1) \o <<"missing_check">> \o Rep(<<"click">>, 1)

step_open_resources_module_and_verify_tabs ==
    OpenTab \o Rep(<<"subtab_check">>, 3) \o <<"missing_check">> \o Rep(<<"click">>, 3)

(* itrans_zd: every subtab is checked for visibility, then opened and its  *)
(* caption awaited.                                                        *)
OpenSubtabs(n) ==
    Rep(<<"subtab_check">>, n) \o <<"missing_check">>
        \o Rep(<<"click", "wait_visible", "banner_check">>, n)

step_01_open_and_login ==
    <<"http_check", "driver", "raw_wait", "url_check", "click", "wait_element",
      "driver", "wait_element", "driver", "click", "raw_wait">>

step_02_open_rail_module == <<"opt_click", "click">> \o OpenTab \o OpenSubtabs(11)

step_03_open_reports_module == OpenTab \o OpenSubtabs(5)

step_04_open_directory_module == OpenTab \o OpenSubtabs(8)

step_05_open_unified_window_module == OpenTab \o OpenSubtabs(12)

StepBody(s, k) ==
    IF s = "itrans"
    THEN CASE k = 1 -> step_open_and_login
           [] k = 2 -> step_open_coordinator_module_and_verify_tabs
           [] k = 3 -> step_open_sales_module_and_verify_tabs
           [] k = 4 -> step_open_analytics_module_and_verify_tabs
           [] k = 5 -> step_open_resources_module_and_verify_tabs
    ELSE CASE k = 1 -> step_01_open_and_login
           [] k = 2 -> step_02_open_rail_module
           [] k = 3 -> step_03_open_reports_module
           [] k = 4 -> step_04_open_directory_module
           [] k = 5 -> step_05_open_unified_window_module

ClickOps == {"click", "opt_click"}

PlainOps == {"driver", "http_check", "url_check"}

(* What the browser and the page can answer to a call. *)
CallResponses(s, op) ==
    CASE op \in ClickOps -> ClickResponses(s)
      [] op \in PlainOps -> [outcome : {"ok", "error"}, page : {NoAlert}]
      [] op = "missing_check" -> [outcome : {"ok"}, page : {NoAlert}]
      [] op = "banner_check" -> [outcome : {"ok"}, page : Pages]
      [] OTHER -> WaitResponses

(* Result of a call: "ok", "retry" (next iteration of click_element),      *)
(* "missing" (the subtab is noted in missing_tabs) or the failure raised.  *)
CallResult(s, op, flag, r, try, missing) ==
    CASE op \in ClickOps -> click_element(s, flag, TRUE, r, try)
      [] op = "wait_element" -> wait_element(flag, TRUE, r)
      [] op = "is_present" -> element_is_present(flag, TRUE, r)
      [] op = "wait_visible" -> wait_visible_by_xpath(flag, TRUE, r)
      [] op = "subtab_check" -> subtab_check(flag, TRUE, r)
      [] op = "raw_wait" -> raw_wait(r)
      [] op = "banner_check" -> raise_if_error_banner(flag, TRUE, r.page)
      [] op = "missing_check" -> IF missing # {} THEN "missing_tabs" ELSE "ok"
      [] op = "driver" -> IF r.outcome = "ok" THEN "ok" ELSE "webdriver"
      [] op = "http_check" -> IF r.outcome = "ok" THEN "ok" ELSE "http"
      [] op = "url_check" -> IF r.outcome = "ok" THEN "ok" ELSE "url"

(* Whether the message of the exception a call raises quotes the locator   *)
(* the call waited for: wait_element, click_element and                    *)
(* wait_visible_by_xpath put the xpath into their message, the subtab      *)
(* loops list the link texts they looked for; the callers of               *)
(* element_is_present raise a message that names the tab, and a bare       *)
(* WebDriverWait raises selenium's TimeoutException with an empty message. *)
NamesLocator(s, res) ==
    CASE res \in {"not_found", "click_failed", "not_visible", "missing_tabs"} -> TRUE
      [] OTHER -> FALSE

(* Whether the failure of the call is caught and discarded by the step.    *)
Discards(op, res) == op = "opt_click"

----------------------------------------------------------------------------
VARIABLES
    script,              \* which script runs
    hasCreds,            \* login and password are set in the environment
    hasTelegram,         \* bot token and chat id are set in the environment
    pc,                  \* position in the entry point
    ip,                  \* index of the current statement when pc is a block
    stepNo,              \* number of the Step being executed
    attempt,             \* attempt of that Step (1-based)
    t0,                  \* start timestamp of the Step (of the attempt in lks)
    t_end,               \* timestamp at which the Step's action last returned
    driver,              \* "none", "live" or "quit"
    check_error_banner,  \* ItransTest.check_error_banner
    test_result,         \* the TestResult
    exc,                 \* the exception being handled
    ss_b64,              \* the handler's local screenshot (0 = None)
    stdout,              \* reports printed so far
    retval,              \* value returned by the entry point
    exitCode,            \* process exit code (-1 while running)
    uncaught,            \* an exception has left the entry point
    now,                 \* wall clock
    lastRecovery,        \* outcome of the latest recovery ("none" before any)
    gi,                  \* index of the current call in the step function
    click_try,           \* iteration of click_element's loop (1-based)
    missing_tabs,        \* the step's missing_tabs list
    lastCall,            \* summary of the latest guarded call
    discarded,           \* banner failures caught and dropped inside a step
    applied,             \* the function application made last (function-level runs)
    trace                \* history of observable events

vars == <<script, hasCreds, hasTelegram, pc, ip, stepNo, attempt, t0, t_end, driver,
          check_error_banner, test_result, exc, ss_b64, stdout, retval, exitCode,
          uncaught, now, lastRecovery, gi, click_try, missing_tabs, lastCall,
          discarded, applied, trace>>

guardVars == <<gi, click_try, missing_tabs, lastCall, discarded>>

(* Summary of a guarded call: the flag it ran under, whether one of its    *)
(* waits timed out and whether the banner was visible then, whether its    *)
(* click was performed, whether the banner was visible at one of its       *)
(* banner checks, and its result.                                          *)
NoCall ==
    [step |-> 0, op |-> "none", flag |-> TRUE, timed_out |-> FALSE,
     banner_at_timeout |-> FALSE, clicked |-> FALSE, banner_at_check |-> FALSE,
     result |-> "none"]

ChecksBanner(op, r) ==
    \/ op \in {"wait_element", "is_present", "banner_check"}
    \/ op \in {"wait_visible", "subtab_check"} /\ r.outcome = "ok"

CallSummary(k, op, flag, r, res) ==
    IF op \in ClickOps
    THEN LET present == r.presence = "ok" /\
                        raise_if_error_banner(flag, TRUE, r.page1) = "ok"
             clicked == present /\ r.wait2 = "ok" /\ r.click \in {"native", "script"}
         IN [step |-> k, op |-> op, flag |-> flag,
             timed_out |-> r.presence = "timeout" \/ (present /\ r.wait2 # "ok"),
             banner_at_timeout |->
                 \/ r.presence = "timeout" /\ BannerVisible(r.page1)
                 \/ present /\ r.wait2 # "ok" /\ BannerVisible(r.page_t),
             clicked |-> clicked,
             banner_at_check |->
                 BannerVisible(r.page1) \/ (clicked /\ BannerVisible(r.page2)),
             result |-> res]
    ELSE [step |-> k, op |-> op, flag |-> flag,
          timed_out |-> r.outcome = "timeout",
          banner_at_timeout |-> r.outcome = "timeout" /\ BannerVisible(r.page),
          clicked |-> FALSE,
          banner_at_check |-> ChecksBanner(op, r) /\ BannerVisible(r.page),
          result |-> res]

(* No function has been applied on its own. *)
NoApplication == [fn |-> "none"]

Event(ev, k, info) == [ev |-> ev, step |-> k, info |-> info]

CurOp == IF pc \in Blocks THEN Ops(script, pc)[ip] ELSE "none"

CountEv(tr, ev) == Cardinality({i \in 1..Len(tr) : tr[i].ev = ev})

Init ==
    /\ script \in Scripts
    /\ hasCreds \in BOOLEAN
    /\ hasTelegram \in BOOLEAN
    /\ pc = IF script = "test_dl" THEN "build_driver" ELSE "check_credentials"
    /\ ip = 0
    /\ stepNo = 0
    /\ attempt = 0
    /\ t0 = 0
    /\ t_end = 0
    /\ driver = "none"
    /\ check_error_banner = TRUE
    /\ test_result = TestResultInit
    /\ exc = NoExc
    /\ ss_b64 = 0
    /\ stdout = << >>
    /\ retval = "unset"
    /\ exitCode = -1
    /\ uncaught = FALSE
    /\ now = 0
    /\ lastRecovery = "none"
    /\ gi = 0
    /\ click_try = 1
    /\ missing_tabs = {}
    /\ lastCall = NoCall
    /\ discarded = {}
    /\ applied = NoApplication
    /\ trace = << >>

(* raise e inside blk: control moves to the enclosing handler; the critical *)
(* handler starts with ss_b64 = None.                                       *)
Raise(e, blk) ==
    /\ exc' = e
    /\ IF RaiseTarget(blk) = "uncaught"
       THEN /\ pc' = "finally"
            /\ ip' = 0
            /\ uncaught' = TRUE
            /\ ss_b64' = ss_b64
       ELSE /\ pc' = RaiseTarget(blk)
            /\ ip' = 1
            /\ uncaught' = uncaught
            /\ ss_b64' = IF RaiseTarget(blk) = "critical" THEN 0 ELSE ss_b64

----------------------------------------------------------------------------
(* test_dl: run_test_cycle writes the route it drew into the result before *)
(* the first Step.                                                         *)
SelectedRoute == "from - to"

(* test_09_order_create *)
OrderCreateStep == 9

(* The order number in the URL of the order page that attempt a reaches. *)
OrderNo(a) == 100 + a

(* Mutation: the order number is stored as soon as the page is reached,    *)
(* whatever becomes of the attempt.                                        *)
SetsOrderId_AnyAttempt(s, k, out) == s = "test_dl" /\ k = OrderCreateStep

(* test_09_order_create calls set_order_id as its last statement, when the *)
(* URL matched; every failure of the step is raised before it.             *)
SetsOrderId(s, k, out) == s = "test_dl" /\ k = OrderCreateStep /\ out = "pass"

(* main(): the credentials check that opens the try block. *)
CheckCredentials ==
    /\ pc = "check_credentials"
    /\ IF hasCreds
       THEN /\ pc' = "build_driver"
            /\ UNCHANGED <<ip, exc, uncaught, ss_b64>>
       ELSE Raise(Exc("config", 0, 0, "no_credentials"), "main")
    /\ UNCHANGED <<applied, guardVars, lastRecovery, script, hasCreds, hasTelegram, stepNo, attempt, t0, t_end, driver,
                   check_error_banner, test_result, stdout, retval, exitCode, now,
                   trace>>

(* build_driver() / webdriver.Remote(...): the session is acquired or the  *)
(* call raises.                                                            *)
BuildDriver ==
    /\ pc = "build_driver"
    /\ \E r \in {"ok", "fail"} :
          IF r = "ok"
          THEN /\ driver' = "live"
               /\ stepNo' = 1
               /\ pc' = "step_begin"
               /\ test_result' = IF script = "test_dl"
                                 THEN [test_result EXCEPT !.selected_route = SelectedRoute]
                                 ELSE test_result
               /\ UNCHANGED <<ip, exc, uncaught, ss_b64>>
          ELSE /\ Raise(Exc("setup", 0, 0, "grid_unreachable"), "main")
               /\ UNCHANGED <<driver, stepNo, test_result>>
    /\ now' = now + 1
    /\ UNCHANGED <<applied, guardVars, lastRecovery, script, hasCreds, hasTelegram, attempt, t0, t_end,
                   check_error_banner, stdout, retval, exitCode, trace>>

(* Entry of a Step: the start timestamp is taken; step 1 of the banner     *)
(* scripts switches the banner check off.                                  *)
BeginStep ==
    /\ pc = "step_begin"
    /\ t0' = now
    /\ attempt' = 1
    /\ check_error_banner' =
          IF script \in BannerScripts /\ stepNo = 1 THEN FALSE ELSE check_error_banner
    /\ pc' = "step_action"
    /\ gi' = IF script \in BannerScripts THEN 1 ELSE 0
    /\ click_try' = 1
    /\ missing_tabs' = {}
    /\ UNCHANGED <<applied, lastCall, discarded, lastRecovery, script, hasCreds, hasTelegram, ip,
                   stepNo, t_end, driver, test_result, exc, ss_b64, stdout, retval,
                   exitCode, uncaught, now, trace>>

(* The failure of the first attempt of Step k, given the history and the   *)
(* failure of the current attempt.                                          *)
FirstFailure(tr, k, last) ==
    LET I == {i \in 1..Len(tr) :
                 tr[i].ev = "exec" /\ tr[i].step = k /\ tr[i].info # "pass"}
    IN IF I = {} THEN last
       ELSE Exc("step", k, 1, tr[CHOOSE i \in I : \A j \in I : i <= j].info)

(* One attempt of the Step's action.  A failed attempt that is not the     *)
(* last goes to the recovery; the last failure reaches the Step's handler  *)
(* (through save_screenshot when open_site_with_retries gave up).          *)
StepAction ==
    /\ pc = "step_action"
    /\ script \notin BannerScripts
    /\ \E out \in StepOutcomes(script, stepNo, hasCreds) :
          /\ trace' = Append(trace, Event("exec", stepNo, out))
          /\ IF out = "pass"
             THEN /\ pc' = "step_passed"
                  /\ exc' = NoExc
                  /\ UNCHANGED <<ip, uncaught, ss_b64>>
             ELSE IF RecoversAfter(script, stepNo, attempt)
             THEN /\ pc' = "recovery"
                  /\ exc' = Exc("step", stepNo, attempt, out)
                  /\ UNCHANGED <<ip, uncaught, ss_b64>>
             ELSE IF out = "open_site"
             THEN /\ pc' = "open_site"
                  /\ ip' = 1
                  /\ exc' = Exc("step", stepNo, attempt, out)
                  /\ UNCHANGED <<uncaught, ss_b64>>
             ELSE LET last == Exc("step", stepNo, attempt, out)
                  IN Raise(RetryRaises(FirstFailure(trace, stepNo, last), last),
                           "step_action")
          /\ test_result' = IF SetsOrderId(script, stepNo, out)
                            THEN set_order_id(test_result, OrderNo(attempt))
                            ELSE test_result
    /\ now' = now + 1
    /\ t_end' = now + 1
    /\ UNCHANGED <<applied, guardVars, lastRecovery, script, hasCreds, hasTelegram, stepNo, attempt, t0, driver,
                   check_error_banner, stdout, retval, exitCode>>

(* itrans / itrans_zd: the next call of the step function.  The step goes  *)
(* on after a call that returned (or whose failure the step drops), passes *)
(* after its last call, and fails with the first failure that leaves it.   *)
GuardedCall ==
    /\ pc = "step_action"
    /\ script \in BannerScripts
    /\ LET body == StepBody(script, stepNo)
           op == body[gi]
       IN \E r \in CallResponses(script, op) :
            LET res == CallResult(script, op, check_error_banner, r, click_try,
                                  missing_tabs)
                goes_on == res \in {"ok", "missing"} \/ (res # "retry" /\ Discards(op, res))
            IN /\ lastCall' = CallSummary(stepNo, op, check_error_banner, r, res)
               /\ missing_tabs' = IF res = "missing"
                                   THEN missing_tabs \cup {BannerVisible(r.page)}
                                   ELSE missing_tabs
               /\ discarded' = IF res = "banner" /\ Discards(op, res)
                                THEN discarded \cup
                                     {[step |-> stepNo,
                                       clicked |-> lastCall'.clicked]}
                                ELSE discarded
               /\ IF res = "retry"
                  THEN /\ click_try' = click_try + 1
                       /\ UNCHANGED <<gi, pc, ip, exc, uncaught, ss_b64, trace, now, t_end>>
                  ELSE IF goes_on /\ gi < Len(body)
                  THEN /\ gi' = gi + 1
                       /\ click_try' = 1
                       /\ UNCHANGED <<pc, ip, exc, uncaught, ss_b64, trace, now, t_end>>
                  ELSE IF goes_on
                  THEN /\ trace' = Append(trace, Event("exec", stepNo, "pass"))
                       /\ pc' = "step_passed"
                       /\ exc' = NoExc
                       /\ now' = now + 1
                       /\ t_end' = now + 1
                       /\ click_try' = 1
                       /\ UNCHANGED <<gi, ip, uncaught, ss_b64>>
                  ELSE /\ trace' = Append(trace, Event("exec", stepNo, res))
                       /\ Raise(Exc("step", stepNo, attempt, res), "step_action")
                       /\ now' = now + 1
                       /\ t_end' = now + 1
                       /\ UNCHANGED <<gi, click_try>>
    /\ UNCHANGED <<applied, lastRecovery, script, hasCreds, hasTelegram, stepNo, attempt, t0, driver,
                   check_error_banner, test_result, stdout, retval, exitCode>>

(* Between two attempts: driver.refresh() (and the ready-state wait in     *)
(* lks), any failure of it swallowed; lks takes a new t0 at the loop top.  *)
Recovery ==
    /\ pc = "recovery"
    /\ \E r \in {"ok", "fail"} :
          /\ lastRecovery' = r
          /\ IF RecoveryRaises(script, r)
             THEN Raise(Exc("recovery", stepNo, attempt, r), "step_action")
             ELSE /\ pc' = "step_action"
                  /\ exc' = NoExc
                  /\ UNCHANGED <<ip, uncaught, ss_b64>>
    /\ trace' = Append(trace, Event("recovery", stepNo, "refresh"))
    /\ attempt' = attempt + 1
    /\ now' = now + 1
    /\ t0' = IF script = "lks" THEN now + 1 ELSE t0
    /\ UNCHANGED <<applied, guardVars, script, hasCreds, hasTelegram, stepNo, t_end, driver,
                   check_error_banner, test_result, stdout, retval, exitCode>>

(* Duration recorded for the Step: test_dl stops the clock when the action *)
(* returns or raises, the others when add_step is called.                  *)
StepDuration == IF script = "test_dl" THEN t_end - t0 ELSE now - t0

(* The action returned: the banner check is switched on again after step 1 *)
(* and the Step is recorded Passed; the next Step, or the success block.   *)
RecordPassed ==
    /\ pc = "step_passed"
    /\ check_error_banner' =
          IF script \in BannerScripts /\ stepNo = 1 THEN TRUE ELSE check_error_banner
    /\ test_result' = add_step(test_result, stepNo, "1", StepDuration)
    /\ trace' = Append(trace, Event("add_step", stepNo, "1"))
    /\ IF NextStepNo(stepNo) <= NumSteps(script)
       THEN /\ stepNo' = NextStepNo(stepNo)
            /\ pc' = "step_begin"
            /\ ip' = ip
       ELSE /\ stepNo' = stepNo
            /\ pc' = "success"
            /\ ip' = 1
    /\ UNCHANGED <<applied, guardVars, lastRecovery, script, hasCreds, hasTelegram, attempt, t0, t_end, driver, exc, ss_b64,
                   stdout, retval, exitCode, uncaught, now>>

----------------------------------------------------------------------------
(* The statements of the handler blocks. *)

(* get_screenshot_b64(driver) / driver.get_screenshot_as_png().  The       *)
(* critical handlers capture only `if driver`.  A capture that succeeds    *)
(* yields a new image, numbered by the captures attempted so far.          *)
Capture ==
    /\ CurOp = "capture"
    /\ IF pc = "critical" /\ driver # "live"
       THEN /\ ip' = AfterCaptureTry(script, pc)
            /\ UNCHANGED <<pc, exc, uncaught, ss_b64, now, trace>>
       ELSE /\ now' = now + 1
            /\ \E r \in {"ok", "fail"} :
                  /\ trace' = Append(trace, Event("capture", stepNo, r))
                  /\ IF r = "ok"
                     THEN /\ ss_b64' = CountEv(trace, "capture") + 1
                          /\ ip' = ip + 1
                          /\ UNCHANGED <<pc, exc, uncaught>>
                     ELSE IF CaptureGuarded(script, pc)
                     THEN /\ ip' = AfterCaptureTry(script, pc)
                          /\ UNCHANGED <<pc, exc, uncaught, ss_b64>>
                     ELSE Raise(Exc(IF pc = "open_site" THEN "step" ELSE "capture",
                                    stepNo, attempt, "webdriver"), pc)
    /\ UNCHANGED <<applied, guardVars, lastRecovery, script, hasCreds, hasTelegram, stepNo, attempt, t0, t_end, driver,
                   check_error_banner, test_result, stdout, retval, exitCode>>

(* save_screenshot_file / the local copy of the screenshot: every failure  *)
(* is swallowed.  In lks it takes the picture again                        *)
(* (driver.get_screenshot_as_png()); in test_dl it writes the bytes        *)
(* already captured.                                                       *)
SaveFile ==
    /\ CurOp = "save_file"
    /\ \E r \in {"ok", "fail"} :
          trace' = IF script = "lks"
                   THEN trace \o <<Event("capture", stepNo, r),
                                   Event("save_file", stepNo, r)>>
                   ELSE Append(trace, Event("save_file", stepNo, r))
    /\ ip' = ip + 1
    /\ UNCHANGED <<applied, guardVars, lastRecovery, script, hasCreds, hasTelegram, pc, stepNo, attempt, t0, t_end, driver,
                   check_error_banner, test_result, exc, ss_b64, stdout, retval,
                   exitCode, uncaught, now>>

(* test_result.add_step(step_key, status="0", ...) *)
AddStepFailed ==
    /\ CurOp = "add_step"
    /\ test_result' = add_step(test_result, stepNo, "0", StepDuration)
    /\ trace' = Append(trace, Event("add_step", stepNo, "0"))
    /\ ip' = ip + 1
    /\ UNCHANGED <<applied, guardVars, lastRecovery, script, hasCreds, hasTelegram, pc, stepNo, attempt, t0, t_end, driver,
                   check_error_banner, exc, ss_b64, stdout, retval, exitCode, uncaught,
                   now>>

(* test_result.set_screenshot_b64(ss_b64); log_test_result attaches only   *)
(* `if screenshot_bytes`.                                                  *)
Attach ==
    /\ CurOp = "attach"
    /\ IF script = "test_dl" /\ pc = "handler" /\ ss_b64 = 0
       THEN UNCHANGED <<test_result, trace>>
       ELSE /\ test_result' = set_screenshot_b64(test_result, ss_b64)
            /\ trace' = Append(trace, Event("attach", stepNo, "ok"))
    /\ ip' = ip + 1
    /\ UNCHANGED <<applied, guardVars, lastRecovery, script, hasCreds, hasTelegram, pc, stepNo, attempt, t0, t_end, driver,
                   check_error_banner, exc, ss_b64, stdout, retval, exitCode, uncaught,
                   now>>

(* send_telegram_alert(...) / send_screenshot_to_telegram(...) *)
Alert ==
    /\ CurOp = "alert"
    /\ \E o \in AlertOutcomes(hasTelegram) :
          /\ trace' = Append(trace, Event("alert", stepNo, o))
          /\ IF AlertRaises(script, o)
             THEN Raise(Exc("alert", stepNo, attempt, o), pc)
             ELSE /\ ip' = ip + 1
                  /\ UNCHANGED <<pc, exc, uncaught, ss_b64>>
    /\ now' = now + 1
    /\ UNCHANGED <<applied, guardVars, lastRecovery, script, hasCreds, hasTelegram, stepNo, attempt, t0, t_end, driver,
                   check_error_banner, test_result, stdout, retval, exitCode>>

(* log_test_result writes message and error into the result directly. *)
SetMessage ==
    /\ CurOp = "set_message"
    /\ test_result' = [test_result EXCEPT
                          !.message = [kind |-> "step_failed", step |-> stepNo],
                          !.error = [prefix |-> "plain", step |-> 0, e |-> exc]]
    /\ ip' = ip + 1
    /\ UNCHANGED <<applied, guardVars, lastRecovery, script, hasCreds, hasTelegram, pc, stepNo, attempt, t0, t_end, driver,
                   check_error_banner, exc, ss_b64, stdout, retval, exitCode, uncaught,
                   now, trace>>

(* `raise` at the end of log_test_result's handler and of                  *)
(* open_site_with_retries.                                                 *)
ReRaise ==
    /\ CurOp = "raise"
    /\ Raise(exc, pc)
    /\ UNCHANGED <<applied, guardVars, lastRecovery, script, hasCreds, hasTelegram, stepNo, attempt, t0, t_end, driver,
                   check_error_banner, test_result, stdout, retval, exitCode, now,
                   trace>>

(* Mutation: every finalize call passes success=True. *)
FinalSuccess_AlwaysTrue == TRUE

(* Arguments of the finalize call of each block.  test_dl's all_success is *)
(* success_count == total_tests, one count per Step recorded Passed.       *)
FinalSuccess ==
    /\ pc = "success"
    /\ script = "test_dl" =>
          Cardinality({i \in 1..Len(test_result.steps) :
                          test_result.steps[i].status = "1"}) = NumSteps(script)

FinalMessage ==
    CASE pc = "success" -> [kind |-> "success", step |-> 0]
      [] pc = "handler" -> [kind |-> "step_failed", step |-> stepNo]
      [] pc = "critical" /\ script = "test_dl" ->
            IF test_result.message = EmptyMsg
            THEN [kind |-> "failed", step |-> 0]
            ELSE test_result.message
      [] pc = "critical" /\ script = "itrans" -> [kind |-> "critical", step |-> 0]
      [] OTHER -> [kind |-> "failed", step |-> 0]

(* Mutation: finalize is always called without an error text. *)
FinalError_None == NoError

FinalError ==
    CASE pc = "success" ->
            IF FinalSuccess THEN NoError
            ELSE [prefix |-> "count", step |-> 0, e |-> NoExc]
      [] pc = "handler" -> [prefix |-> "step", step |-> stepNo, e |-> exc]
      [] pc = "critical" /\ script = "test_dl" ->
            IF test_result.error = NoError
            THEN [prefix |-> "plain", step |-> 0, e |-> exc]
            ELSE test_result.error
      [] OTHER -> [prefix |-> "critical", step |-> 0, e |-> exc]

(* test_result.finalize(success, message, error) *)
Finalize ==
    /\ CurOp = "finalize"
    /\ test_result' = finalize(test_result, FinalSuccess, FinalMessage, FinalError, now)
    /\ trace' = Append(trace, Event("finalize", stepNo, StatusOf(FinalSuccess)))
    /\ ip' = ip + 1
    /\ UNCHANGED <<applied, guardVars, lastRecovery, script, hasCreds, hasTelegram, pc, stepNo, attempt, t0, t_end, driver,
                   check_error_banner, exc, ss_b64, stdout, retval, exitCode, uncaught,
                   now>>

(* print(json.dumps(test_result.to_dict(), ...)) *)
PrintReport ==
    /\ CurOp = "print"
    /\ stdout' = Append(stdout, to_dict(script, test_result))
    /\ trace' = Append(trace, Event("print", stepNo, test_result.status))
    /\ ip' = ip + 1
    /\ UNCHANGED <<applied, guardVars, lastRecovery, script, hasCreds, hasTelegram, pc, stepNo, attempt, t0, t_end, driver,
                   check_error_banner, test_result, exc, ss_b64, retval, exitCode,
                   uncaught, now>>

(* return 0 / return 1 / return all_success / return False: control goes   *)
(* to the finally block.                                                   *)
Return ==
    /\ CurOp = "return"
    /\ retval' = ReturnValue(script, pc)
    /\ pc' = ReturnTarget(script, pc)
    /\ ip' = 0
    /\ UNCHANGED <<applied, guardVars, lastRecovery, script, hasCreds, hasTelegram, stepNo, attempt, t0, t_end, driver,
                   check_error_banner, test_result, exc, ss_b64, stdout, exitCode,
                   uncaught, now, trace>>

(* finally: `if driver: driver.quit()`, an error of quit swallowed. *)
Quit ==
    /\ pc = "finally"
    /\ IF driver = "live"
       THEN /\ \E r \in {"ok", "fail"} : trace' = Append(trace, Event("quit", stepNo, r))
            /\ driver' = "quit"
            /\ now' = now + 1
       ELSE UNCHANGED <<trace, driver, now>>
    /\ pc' = "exit"
    /\ UNCHANGED <<applied, guardVars, lastRecovery, script, hasCreds, hasTelegram, ip, stepNo, attempt, t0, t_end,
                   check_error_banner, test_result, exc, ss_b64, stdout, retval,
                   exitCode, uncaught>>

(* sys.exit(main()) / sys.exit(0 if success else 1); an uncaught exception *)
(* ends the interpreter with code 1.                                       *)
Exit ==
    /\ pc = "exit"
    /\ exitCode' = IF uncaught THEN 1 ELSE ExitCode(retval)
    /\ pc' = "done"
    /\ UNCHANGED <<applied, guardVars, lastRecovery, script, hasCreds, hasTelegram, ip, stepNo, attempt, t0, t_end, driver,
                   check_error_banner, test_result, exc, ss_b64, stdout, retval,
                   uncaught, now, trace>>

Next ==
    \/ CheckCredentials
    \/ BuildDriver
    \/ BeginStep
    \/ StepAction
    \/ GuardedCall
    \/ Recovery
    \/ RecordPassed
    \/ Capture
    \/ SaveFile
    \/ AddStepFailed
    \/ Attach
    \/ Alert
    \/ SetMessage
    \/ ReRaise
    \/ Finalize
    \/ PrintReport
    \/ Return
    \/ Quit
    \/ Exit

Spec == Init /\ [][Next]_vars

(* The interpreter keeps executing: a run never halts between two          *)
(* statements of the entry point.                                          *)
FairSpec == Spec /\ WF_vars(Next)

----------------------------------------------------------------------------
(* The functions on their own: a call is made with arguments drawn from    *)
(* bounded sets, on a TestResult, on a page or against a browser that      *)
(* answers each iteration of click_element as it likes.                    *)

Units == {"TestResult", "raise_if_error_banner", "click_element", "element_is_present",
          "open_site_with_retries"}

(* Calls made on one TestResult. *)
MaxCalls == 4

(* Largest value passed for click_element's retries parameter. *)
MaxRetriesArg == 3

(* XPath locators passed to click_element. *)
Locators == {"//button[@id='login']", "//a[@id='tab']"}

(* Only itrans_zd's click_element takes a description. *)
Descriptions(s) == IF s = "itrans_zd" THEN {"", "Login"} ELSE {""}

StepNames == {1, 2}

Messages == {[kind |-> "success", step |-> 0], [kind |-> "step_failed", step |-> 1]}

Errors == {NoError, [prefix |-> "step", step |-> 1, e |-> NoExc]}

(* class attributes and texts an alert can carry. *)
SampleClasses ==
    { << >>,
      <<"a", "l", "e", "r", "t", " ">> \o AlertErrorMarker,
      <<"A", "L", "E", "R", "T", "-", "E", "R", "R", "O", "R">>,
      <<"a", "l", "e", "r", "t", "-", "i", "n", "f", "o">> }

SampleTexts ==
    { << >>,
      <<"o", "k">>,
      <<"CYR_O">> \o Tail(ErrorWord) \o <<"!">>,
      <<"CYR_O", "CYR_SH", "CYR_I", "CYR_B", "CYR_K", "CYR_A">>,
      <<"CYR_P">> \o Tail(ErrorPhrase) }

SampleAlerts ==
    [displayed : BOOLEAN, class : SampleClasses, text : SampleTexts, fails : {"none"}]
    \cup [displayed : BOOLEAN,
          class : {<< >>, <<"a", "l", "e", "r", "t", " ">> \o AlertErrorMarker},
          text : {<< >>},
          fails : {"is_displayed", "get_attribute", "text"}]

SamplePages ==
    [query : {"ok", "driver_error"},
     alerts : {<< >>} \cup {<<a>> : a \in SampleAlerts}
                      \cup {<<a, b>> : a \in SampleAlerts, b \in SampleAlerts}]

CallInit ==
    /\ script \in Scripts
    /\ hasCreds = TRUE
    /\ hasTelegram = TRUE
    /\ pc = "call"
    /\ ip = 0
    /\ stepNo = 0
    /\ attempt = 0
    /\ t0 = 0
    /\ t_end = 0
    /\ driver = "live"
    /\ check_error_banner = TRUE
    /\ test_result = TestResultInit
    /\ exc = NoExc
    /\ ss_b64 = 0
    /\ stdout = << >>
    /\ retval = "unset"
    /\ exitCode = -1
    /\ uncaught = FALSE
    /\ now = 0
    /\ lastRecovery = "none"
    /\ gi = 0
    /\ click_try = 1
    /\ missing_tabs = {}
    /\ lastCall = NoCall
    /\ discarded = {}
    /\ trace = << >>
    /\ \E u \in Units :
          applied = [unit |-> u, fn |-> "none", finalizes |-> 0,
                     first |-> TestResultInit]

callFrame == <<script, hasCreds, hasTelegram, pc, ip, stepNo, attempt, t0, t_end, driver,
               check_error_banner, exc, ss_b64, stdout, retval, exitCode, uncaught,
               lastRecovery, gi, click_try, missing_tabs, lastCall, discarded, trace>>

(* test_result.add_step(name, status, duration) *)
ApplyAddStep ==
    /\ applied.unit = "TestResult"
    /\ now < MaxCalls
    /\ \E name \in StepNames, status \in {"0", "1"} :
          test_result' = add_step(test_result, name, status, 0)
    /\ applied' = [applied EXCEPT !.fn = "add_step"]
    /\ now' = now + 1
    /\ UNCHANGED callFrame

(* test_result.finalize(success, message, error); `first` keeps the result *)
(* as the first finalize call left it.                                     *)
ApplyFinalize ==
    /\ applied.unit = "TestResult"
    /\ now < MaxCalls
    /\ \E success \in BOOLEAN, message \in Messages, error \in Errors :
          test_result' = finalize(test_result, success, message, error, now + 1)
    /\ applied' = [applied EXCEPT !.fn = "finalize",
                                   !.finalizes = @ + 1,
                                   !.first = IF @ = TestResultInit /\ applied.finalizes = 0
                                             THEN test_result' ELSE @]
    /\ now' = now + 1
    /\ UNCHANGED callFrame

(* test.raise_if_error_banner() on a page. *)
ApplyBannerCheck ==
    /\ applied.unit = "raise_if_error_banner"
    /\ applied.fn = "none"
    /\ script \in BannerScripts
    /\ \E flag \in BOOLEAN, drv \in BOOLEAN, page \in SamplePages :
          applied' = [unit |-> "raise_if_error_banner", fn |-> "raise_if_error_banner",
                      flag |-> flag, drv |-> drv, page |-> page,
                      ret |-> raise_if_error_banner(flag, drv, page)]
    /\ UNCHANGED <<callFrame, test_result, now>>

(* test.click_element(xpath, timeout, retries): the call is entered. *)
ApplyClick ==
    /\ applied.unit = "click_element"
    /\ applied.fn = "none"
    /\ \E retries \in 0..MaxRetriesArg, flag \in BOOLEAN, xpath \in Locators,
          description \in Descriptions(script) :
          applied' = [unit |-> "click_element", fn |-> "click_element",
                      retries |-> retries, flag |-> flag, xpath |-> xpath,
                      description |-> description, try |-> 1,
                      attempts |-> 0, absent |-> TRUE, clicked |-> FALSE,
                      click |-> "none", ret |-> "running", msg |-> << >>]
    /\ UNCHANGED <<callFrame, test_result, now>>

(* The next iteration of `for attempt in range(retries)`; the function     *)
(* returns None when the range is used up.  `absent` says that the         *)
(* element has not been present in any iteration so far.                   *)
ClickIteration ==
    /\ applied.unit = "click_element"
    /\ applied.fn = "click_element"
    /\ applied.ret = "running"
    /\ IF applied.try > applied.retries
       THEN applied' = [applied EXCEPT !.ret = "returned"]
       ELSE \E r \in ClickResponses(script) :
              LET res == click_iteration(script, applied.flag, TRUE, r, applied.try,
                                         applied.retries)
              IN applied' =
                   [applied EXCEPT
                      !.attempts = @ + 1,
                      !.absent = @ /\ r.presence = "timeout",
                      !.clicked = click_performed(script, applied.flag, TRUE, r),
                      !.click = IF click_reached(script, applied.flag, TRUE, r)
                                THEN r.click ELSE "none",
                      !.try = IF res = "retry" THEN @ + 1 ELSE @,
                      !.msg = IF res = "click_failed"
                              THEN click_failure_message(script, applied.retries,
                                       applied.xpath, applied.description,
                                       caught_exception(r))
                              ELSE @,
                      !.ret = CASE res = "retry" -> "running"
                                [] res = "ok" -> "returned"
                                [] OTHER -> res]
    /\ UNCHANGED <<callFrame, test_result, now>>

(* test.element_is_present(xpath, timeout) against a page. *)
ApplyElementIsPresent ==
    /\ applied.unit = "element_is_present"
    /\ applied.fn = "none"
    /\ \E flag \in BOOLEAN, r \in [outcome : {"ok", "timeout", "driver_error"}, page : Pages] :
          applied' = [unit |-> "element_is_present", fn |-> "element_is_present",
                      flag |-> flag /\ HasBannerCheck(script), r |-> r,
                      ret |-> element_is_present_call(script, flag, TRUE, r)]
    /\ UNCHANGED <<callFrame, test_result, now>>

(* self.open_site_with_retries(URL, retries=3, wait=10): the call is       *)
(* entered.                                                                *)
ApplyOpenSite ==
    /\ applied.unit = "open_site_with_retries"
    /\ applied.fn = "none"
    /\ script = "test_dl"
    /\ applied' = [unit |-> "open_site_with_retries", fn |-> "open_site_with_retries",
                   try |-> 1, attempts |-> 0, ret |-> "running"]
    /\ UNCHANGED <<callFrame, test_result, now>>

(* The next iteration of `for attempt in range(retries)`; when the range   *)
(* is used up the function raises.                                         *)
OpenSiteIteration ==
    /\ applied.unit = "open_site_with_retries"
    /\ applied.fn = "open_site_with_retries"
    /\ applied.ret = "running"
    /\ IF applied.try > OpenSiteRetries
       THEN applied' = [applied EXCEPT !.ret = "open_site"]
       ELSE \E r \in [get : {"ok", "error"}, outcome : {"ok", "timeout", "driver_error"}] :
              LET res == open_site_iteration(r)
              IN applied' = [applied EXCEPT
                                !.attempts = @ + 1,
                                !.try = IF res = "next" THEN @ + 1 ELSE @,
                                !.ret = IF res = "next" THEN "running" ELSE "returned"]
    /\ UNCHANGED <<callFrame, test_result, now>>

CallNext ==
    \/ ApplyAddStep
    \/ ApplyFinalize
    \/ ApplyBannerCheck
    \/ ApplyClick
    \/ ClickIteration
    \/ ApplyElementIsPresent
    \/ ApplyOpenSite
    \/ OpenSiteIteration

CallSpec == CallInit /\ [][CallNext]_vars

----------------------------------------------------------------------------
(* Vocabulary of the properties. *)

Done == pc = "done"

EvIdx(ev) == {i \in 1..Len(trace) : trace[i].ev = ev}

ExecIdx == EvIdx("exec")

LastExec == trace[CHOOSE i \in ExecIdx : \A j \in ExecIdx : j <= i]

(* The Step that failed (its last attempt raised), 0 when none has. *)
FailedStep ==
    IF ExecIdx # {} /\ LastExec.info # "pass" /\ pc \notin {"step_action", "recovery"}
    THEN LastExec.step
    ELSE 0

(* The pipeline ran and every Step's action returned. *)
AllStepsPassed ==
    /\ ExecIdx # {}
    /\ LastExec.info = "pass"
    /\ pc \notin {"step_action", "recovery", "step_passed", "step_begin"}

IsFailedRecord(e) == e.ev = "add_step" /\ e.info = "0"

AllRecordedPassed(steps) == \A i \in 1..Len(steps) : steps[i].status = "1"

----------------------------------------------------------------------------
(* C1: for every pipeline, a failure at Step k (1-indexed) puts exactly k   *)
(* StepResults into the emitted report, the first k-1 with status "1" and   *)
(* the k-th with status "0", and the report's success is false.             *)
C1_FailureAtStepK ==
    (Done /\ FailedStep > 0) =>
        /\ Len(stdout) = 1
        /\ LET r == stdout[1]
               k == FailedStep
           IN /\ Len(r.steps) = k
              /\ \A i \in 1..(k - 1) : r.steps[i].status = "1"
              /\ r.steps[k].status = "0"
              /\ r.success = FALSE

(* C2: the pipeline is fail-fast and ordered.  Step actions run in listed   *)
(* order without skipping; the action of Step k starts only after Step k-1  *)
(* has been recorded Passed; a Step whose attempt failed is either retried  *)
(* to success or no later Step runs; and no Step action runs after a Failed *)
(* record, after finalize, after the report or after the session is         *)
(* released.                                                                *)
C2_FailFastOrdered ==
    \A q \in ExecIdx :
        LET k == trace[q].step
        IN /\ \A p \in ExecIdx : p < q => trace[p].step <= k
           /\ k = 1 \/ \E p \in 1..(q - 1) : trace[p] = Event("add_step", k - 1, "1")
           /\ \A p \in ExecIdx :
                 (p < q /\ trace[p].info # "pass" /\ trace[p].step < k) =>
                     \E m \in ExecIdx :
                         p < m /\ m < q /\ trace[m] = Event("exec", trace[p].step, "pass")
           /\ \A p \in 1..(q - 1) :
                 /\ ~IsFailedRecord(trace[p])
                 /\ trace[p].ev \notin {"finalize", "print", "quit"}

C2_Witness ==
    /\ Done
    /\ FailedStep = 3
    /\ \E p \in ExecIdx : trace[p].step = 2 /\ trace[p].info # "pass"

(* C3: a run of the pipeline in which no Step fails is reported with        *)
(* success == true, status == "1", one StepResult with status "1" for each  *)
(* of the n Steps, and a null screenshot.                                   *)
C3_AllPassReport ==
    (Done /\ AllStepsPassed) =>
        /\ Len(stdout) = 1
        /\ LET r == stdout[1]
           IN /\ r.success = TRUE
              /\ r.status = "1"
              /\ Len(r.steps) = NumSteps(script)
              /\ \A i \in 1..NumSteps(script) :
                    r.steps[i].name = i /\ r.steps[i].status = "1"
              /\ r.screenshot = 0

C3_Witness ==
    /\ Done
    /\ AllStepsPassed
    /\ script = "lks"
    /\ \E p \in ExecIdx : trace[p].info # "pass"

(* C4 as stated: in every emitted report success is true iff every         *)
(* recorded Step status is Passed.                                          *)
C4_Original ==
    \A n \in 1..Len(stdout) :
        stdout[n].success <=> AllRecordedPassed(stdout[n].steps)

(* C4 as amended: in every emitted report success is true iff all n Steps  *)
(* of the pipeline are recorded and every one of them is Passed.            *)
C4_SuccessIffAllStepsPassed ==
    \A n \in 1..Len(stdout) :
        stdout[n].success <=>
            /\ Len(stdout[n].steps) = NumSteps(script)
            /\ AllRecordedPassed(stdout[n].steps)

C4_Witness ==
    /\ Len(stdout) = 1
    /\ ~stdout[1].success
    /\ Len(stdout[1].steps) = 0
    /\ driver = "none"

(* C5: on every exit path exactly one report is emitted, after finalize    *)
(* and complete, and no exception leaves the entry point.                   *)
C5_OneCompleteReport ==
    /\ Len(stdout) <= 1
    /\ ~uncaught
    /\ Done => Len(stdout) = 1
    /\ \A n \in 1..Len(stdout) :
          /\ stdout[n].total_duration >= 0
          /\ stdout[n].message # EmptyMsg
          /\ stdout[n].status = (IF stdout[n].success THEN "1" ELSE "0")
          /\ stdout[n] = to_dict(script, test_result)
    /\ \A p \in EvIdx("print") : \E q \in EvIdx("finalize") : q < p

C5_Witness ==
    /\ Done
    /\ Len(stdout) = 1
    /\ \E p \in EvIdx("capture") : trace[p].info = "fail"
    /\ \E p \in EvIdx("alert") : trace[p].info = "network_exception"
    /\ \E p \in EvIdx("quit") : trace[p].info = "fail"

(* C6: the exit code is 0 iff the emitted report has success == true;      *)
(* every failed run, a configuration or setup failure included, exits 1.    *)
C6_ExitCodeMirrorsSuccess ==
    /\ exitCode \in {-1, 0, 1}
    /\ Done =>
          /\ exitCode \in {0, 1}
          /\ exitCode = 0 <=> (Len(stdout) = 1 /\ stdout[1].success)
          /\ (ExecIdx = {} \/ FailedStep > 0) => exitCode = 1
    /\ ~Done => exitCode = -1

C6_Witness ==
    /\ Done
    /\ ExecIdx = {}
    /\ exitCode = 1
    /\ driver = "none"

(* C7: the session is released exactly once, at the end of the run, on     *)
(* every exit path on which it was acquired, and no release is attempted   *)
(* on a session that was never acquired.                                    *)
C7_ReleasedExactlyOnce ==
    /\ Cardinality(EvIdx("quit")) <= 1
    /\ driver = "none" => EvIdx("quit") = {}
    /\ driver = "quit" <=> EvIdx("quit") # {}
    /\ \A p \in EvIdx("quit") : p = Len(trace)
    /\ Done => driver \in {"none", "quit"}

C7_Witness ==
    /\ Done
    /\ FailedStep > 0
    /\ driver = "quit"
    /\ \E p \in EvIdx("quit") : trace[p].info = "fail"

Before(A, B) == \A i \in A, j \in B : i < j

FailRecIdx == {i \in 1..Len(trace) : IsFailedRecord(trace[i])}

(* C8 as stated: when a Step fails, (1) the failing StepResult is recorded, *)
(* (2) the screenshot is captured, (3) it is attached, (4) the dispatcher   *)
(* is invoked, (5) the result is finalized, (6) the report is emitted, in   *)
(* this order.                                                              *)
C8_Original ==
    FailedStep > 0 =>
        /\ Before(FailRecIdx, EvIdx("capture"))
        /\ Before(EvIdx("capture"), EvIdx("attach"))
        /\ Before(EvIdx("attach"), EvIdx("alert"))
        /\ Before(EvIdx("alert"), EvIdx("finalize"))
        /\ Before(EvIdx("finalize"), EvIdx("print"))

(* C8 as amended: when a Step fails, the screenshot capture is attempted   *)
(* first, before the failing StepResult is recorded, before any attachment *)
(* and before the dispatcher is invoked; an attachment follows a capture   *)
(* that succeeded; the Failed record, the attachments and the alerts all   *)
(* precede finalize, which finalizes the run as Failed; the report is      *)
(* emitted after finalize.                                                  *)
C8_FailureSideEffectOrder ==
    FailedStep > 0 =>
        /\ \A j \in FailRecIdx \cup EvIdx("attach") \cup EvIdx("alert") :
              \E i \in EvIdx("capture") : i < j
        /\ \A j \in EvIdx("attach") :
              \E i \in EvIdx("capture") : i < j /\ trace[i].info = "ok"
        /\ Before(FailRecIdx \cup EvIdx("attach") \cup EvIdx("alert"), EvIdx("finalize"))
        /\ \A i \in EvIdx("finalize") : trace[i].info = "0"
        /\ Before(EvIdx("finalize"), EvIdx("print"))
        /\ Done => (EvIdx("finalize") # {} /\ EvIdx("print") # {})

C8_Witness ==
    /\ Done
    /\ FailedStep > 0
    /\ FailRecIdx # {}
    /\ EvIdx("attach") # {}
    /\ EvIdx("alert") # {}
    /\ EvIdx("print") # {}

(* C9: in every run in which a Step fails the alert dispatcher is invoked  *)
(* exactly once, and in a run in which all Steps pass it is never invoked.  *)
C9_AlertExactlyOnce ==
    Done =>
        /\ FailedStep > 0 => Cardinality(EvIdx("alert")) = 1
        /\ AllStepsPassed => Cardinality(EvIdx("alert")) = 0

(* C10: the alert dispatcher never raises to its caller.  Whatever the      *)
(* delivery runs into, the call returns to the statement that follows it    *)
(* with the program state it was called in, so the run continues exactly    *)
(* as after a delivery that succeeded: the result is finalized, one report  *)
(* is emitted and the exit code is 1.                                       *)
C10_AlertNeverRaises ==
    /\ [][CurOp = "alert" =>
            /\ pc' = pc
            /\ ip' = ip + 1
            /\ <<exc, uncaught, ss_b64, test_result, stdout, retval, exitCode, driver,
                 stepNo, attempt, check_error_banner>>' =
               <<exc, uncaught, ss_b64, test_result, stdout, retval, exitCode, driver,
                 stepNo, attempt, check_error_banner>>]_vars
    /\ [](\A p \in EvIdx("alert") :
             /\ exc.kind # "alert"
             /\ Done => /\ Len(stdout) = 1
                        /\ stdout[1].total_duration >= 0
                        /\ ~stdout[1].success
                        /\ exitCode = 1)

C10_Witness ==
    /\ Done
    /\ Len(stdout) = 1
    /\ FailedStep > 0
    /\ \E p \in EvIdx("alert") : trace[p].info = "network_exception"

----------------------------------------------------------------------------
(* Attempts, recoveries and records of one Step in the history. *)

ExecOf(k) == {i \in ExecIdx : trace[i].step = k}

FailedExecOf(k) == {i \in ExecOf(k) : trace[i].info # "pass"}

RecoveryOf(k) == {i \in EvIdx("recovery") : trace[i].step = k}

RecordsOf(k) == {i \in EvIdx("add_step") : trace[i].step = k}

ResultsOf(steps, k) == {i \in 1..Len(steps) : steps[i].name = k}

(* Step k has been concluded after two failed attempts and a third that    *)
(* passed.                                                                  *)
FailsTwiceThenPasses(k) ==
    /\ Cardinality(ExecOf(k)) = 3
    /\ Cardinality(FailedExecOf(k)) = 2
    /\ RecordsOf(k) # {}

(* C11: a failed diagnostic capture is best-effort.  When a Step failed and *)
(* no screenshot could be taken, the report still records that Step with    *)
(* status "0", its error is the Step's own failure, and the screenshot is   *)
(* null.                                                                    *)
C11_CaptureBestEffort ==
    ( /\ Done
      /\ FailedStep > 0
      /\ EvIdx("capture") # {}
      /\ \A i \in EvIdx("capture") : trace[i].info = "fail" ) =>
        /\ Len(stdout) = 1
        /\ LET r == stdout[1]
               k == FailedStep
           IN /\ Len(r.steps) = k
              /\ r.steps[k].status = "0"
              /\ r.error.e.kind = "step"
              /\ r.error.e.step = k
              /\ r.error.e.cause = LastExec.info
              /\ r.screenshot = 0

(* C12: exactly one diagnostic screenshot is captured per failed run, and   *)
(* the screenshot in the report is the one captured at the Step failure,    *)
(* never one of a later capture.  Stated for the runs in which the capture  *)
(* at the Step failure succeeds.                                            *)
C12_OneCaptureRetained ==
    ( /\ Done
      /\ FailedStep > 0
      /\ \E i \in EvIdx("capture") :
            /\ trace[i].info = "ok"
            /\ \A j \in EvIdx("capture") : i <= j ) =>
        /\ Cardinality(EvIdx("capture")) = 1
        /\ Len(stdout) = 1
        /\ stdout[1].screenshot \in {0, 1}

(* C13 as stated: under the retry policy with three attempts, a Step whose  *)
(* action fails twice and then succeeds is reported Passed, with exactly    *)
(* one recovery invocation and exactly one StepResult for the Step.         *)
C13_Original ==
    \A k \in 1..NumSteps(script) :
        (script = "lks" /\ FailsTwiceThenPasses(k)) =>
            /\ \A i \in RecordsOf(k) : trace[i].info = "1"
            /\ Cardinality(RecoveryOf(k)) = 1
            /\ Cardinality(ResultsOf(test_result.steps, k)) = 1

(* C13 as amended: under the retry policy with three attempts              *)
(* (max_retries = 2), a Step whose action fails twice is given its third    *)
(* attempt, and when that succeeds the Step is reported Passed, with        *)
(* exactly two recovery invocations, one after each failed attempt, and     *)
(* exactly one StepResult for the Step.                                     *)
C13_TwoFailuresThenPass ==
    \A k \in 1..NumSteps(script) :
        /\ (script = "lks" /\ FailsTwiceThenPasses(k)) =>
              /\ \A i \in RecordsOf(k) : trace[i].info = "1"
              /\ Cardinality(RecordsOf(k)) = 1
              /\ Cardinality(RecoveryOf(k)) = 2
              /\ Cardinality(ResultsOf(test_result.steps, k)) = 1
              /\ \A i \in ResultsOf(test_result.steps, k) :
                    test_result.steps[i].status = "1"
        /\ (script = "lks" /\ \E i \in RecordsOf(k) : trace[i].info = "0") =>
              Cardinality(FailedExecOf(k)) = LksMaxRetries + 1

C13_Witness ==
    /\ Done
    /\ script = "lks"
    /\ FailsTwiceThenPasses(2)
    /\ Len(stdout) = 1
    /\ stdout[1].success
    /\ stdout[1].steps[2].status = "1"

(* C14: when a retried action fails on every attempt, the failure in the    *)
(* report is the one raised by the last attempt, unchanged, never that of   *)
(* an earlier attempt.                                                      *)
C14_LastFailureSurfaced ==
    (Done /\ FailedStep > 0 /\ MaxAttempts(script, FailedStep) > 1) =>
        /\ Len(stdout) = 1
        /\ Cardinality(FailedExecOf(FailedStep)) = MaxAttempts(script, FailedStep)
        /\ stdout[1].error.e =
              Exc("step", FailedStep, MaxAttempts(script, FailedStep), LastExec.info)

C14_Witness ==
    /\ Done
    /\ script = "test_dl"
    /\ FailedStep = 8
    /\ Cardinality(FailedExecOf(8)) = 2
    /\ Len(stdout) = 1
    /\ stdout[1].error.e.attempt = 2

(* C15: the recovery runs only strictly between a failed attempt and the    *)
(* next attempt of the same Step: never before the first attempt, never     *)
(* after an attempt that passed, never after the last attempt; and the      *)
(* number of recoveries of a Step equals the number of its failed attempts  *)
(* that are followed by another attempt.                                    *)
C15_RecoveryOnlyBetweenAttempts ==
    /\ \A i \in EvIdx("recovery") :
          /\ i > 1
          /\ trace[i - 1].ev = "exec"
          /\ trace[i - 1].step = trace[i].step
          /\ trace[i - 1].info # "pass"
          /\ IF i < Len(trace)
             THEN trace[i + 1].ev = "exec" /\ trace[i + 1].step = trace[i].step
             ELSE pc = "step_action" /\ stepNo = trace[i].step
    /\ \A k \in 1..NumSteps(script) :
          /\ Cardinality(ExecOf(k)) <= MaxAttempts(script, k)
          /\ (stepNo # k \/ pc \notin {"step_action", "recovery"}) =>
                Cardinality(RecoveryOf(k)) =
                    Cardinality({i \in FailedExecOf(k) : \E j \in ExecOf(k) : j > i})

C15_Witness ==
    /\ Done
    /\ script = "lks"
    /\ FailedStep = 2
    /\ Cardinality(RecoveryOf(1)) = 1
    /\ Cardinality(RecoveryOf(2)) = 2

----------------------------------------------------------------------------
(* Banner facts of a Step. *)

RecordedAs(report, k, status) ==
    \E i \in 1..Len(report.steps) :
        report.steps[i].name = k /\ report.steps[i].status = status

(* With the check enabled, a click of Step k was performed while a visible *)
(* matching banner was on the page at the check that follows it.           *)
ClickRevealedBanner(k) ==
    \/ /\ lastCall.step = k
       /\ lastCall.op \in ClickOps
       /\ lastCall.flag
       /\ lastCall.clicked
       /\ lastCall.banner_at_check
    \/ [step |-> k, clicked |-> TRUE] \in discarded

(* An enabled banner check of Step k ran while a visible matching banner   *)
(* was on the page.                                                        *)
BannerObserved(k) ==
    \/ lastCall.step = k /\ lastCall.flag /\ lastCall.banner_at_check
    \/ \E d \in discarded : d.step = k

(* The wait whose timeout failed Step k timed out while a visible matching *)
(* banner was on the page, the check being enabled.                        *)
TimedOutUnderBanner(k) ==
    /\ lastCall.step = k
    /\ lastCall.flag
    /\ \/ lastCall.timed_out /\ lastCall.banner_at_timeout
       \/ lastCall.op = "missing_check" /\ TRUE \in missing_tabs

(* C16: with the banner check enabled, a click that succeeds mechanically   *)
(* while a visible alert with the error marker is on the page raises the    *)
(* banner-detected failure instead of returning, and the enclosing Step is  *)
(* recorded Failed.                                                         *)
C16_ClickRevealsBanner ==
    /\ ( /\ lastCall.op \in ClickOps
         /\ lastCall.flag
         /\ lastCall.clicked
         /\ lastCall.banner_at_check ) => lastCall.result = "banner"
    /\ \A k \in 1..NumSteps(script) :
          (Done /\ ClickRevealedBanner(k)) =>
              Len(stdout) = 1 /\ RecordedAs(stdout[1], k, "0")

(* C17: when a guarded wait of a Step times out while a visible matching    *)
(* banner is on the page and the check is enabled, the failure reported for *)
(* the Step is the banner-detected failure, not the timeout.                *)
C17_BannerTakesPrecedence ==
    ( /\ Done
      /\ FailedStep > 0
      /\ TimedOutUnderBanner(FailedStep)
      /\ Len(stdout) = 1
      /\ stdout[1].error.e.kind = "step" ) =>
        stdout[1].error.e.cause = "banner"

(* C18: a visible matching banner observed by an enabled check is a hard    *)
(* failure of its Step: the failure propagates to the step runner as the    *)
(* Step's failure, and no code of the Step catches and drops it so that the *)
(* Step could still be recorded Passed.                                     *)
C18_BannerIsHardFailure ==
    /\ discarded = {}
    /\ (lastCall.result = "banner" /\ lastCall.flag) =>
          /\ pc \notin {"step_action", "step_passed", "step_begin"}
          /\ LastExec = Event("exec", lastCall.step, "banner")

(* C19: while the banner check is disabled around the login Step no         *)
(* guarded call of that Step raises the banner-detected failure, whatever   *)
(* is on the page; the check is enabled again before the next Step begins,  *)
(* so a Step after the login Step in which a check meets a visible matching *)
(* banner fails and is not recorded Passed.                                 *)
C19_LoginWindow ==
    /\ (script \in BannerScripts /\ lastCall.step = 1) =>
          ~lastCall.flag /\ lastCall.result # "banner"
    /\ (stepNo > 1 /\ pc \in {"step_begin", "step_action"}) => check_error_banner
    /\ \A k \in 2..NumSteps(script) :
          BannerObserved(k) => \A i \in RecordsOf(k) : trace[i].info # "1"

(* C20: the banner-check flag starts enabled and, once the login Step has   *)
(* finished, passed or failed, it is enabled at every later point of the    *)
(* run.                                                                     *)
C20_FlagRestored ==
    /\ stepNo = 0 => check_error_banner
    /\ (stepNo > 1 \/ (stepNo = 1 /\ pc \notin {"step_begin", "step_action", "step_passed"}))
          => check_error_banner

----------------------------------------------------------------------------
(* A capital letter and its small letter. *)
CasePairs ==
    { <<"A", "a">>, <<"E", "e">>, <<"L", "l">>, <<"O", "o">>, <<"R", "r">>, <<"T", "t">>,
      <<"CYR_A", "cyr_a">>, <<"CYR_B", "cyr_b">>, <<"CYR_I", "cyr_i">>,
      <<"CYR_K", "cyr_k">>, <<"CYR_O", "cyr_o">>, <<"CYR_SH", "cyr_sh">>,
      <<"CYR_P", "cyr_p">>, <<"CYR_R", "cyr_r">>, <<"CYR_Z", "cyr_z">>,
      <<"CYR_L", "cyr_l">> }

SameLetter(c, d) == c = d \/ <<c, d>> \in CasePairs \/ <<d, c>> \in CasePairs

(* word occurs in str, letters compared without regard to case. *)
OccursAnyCase(word, str) ==
    \E i \in 1..(Len(str) - Len(word) + 1) :
        \A j \in 1..Len(word) : SameLetter(str[i + j - 1], word[j])

(* A displayed alert carrying the error marker in its class or the error   *)
(* word in its text.                                                       *)
MatchingAlert(a) ==
    a.displayed /\ (OccursAnyCase(AlertErrorMarker, a.class) \/ OccursAnyCase(ErrorWord, a.text))

(* The query works and every alert answers. *)
Readable(page) ==
    /\ page.query = "ok"
    /\ \A i \in 1..Len(page.alerts) : page.alerts[i].fails = "none"

(* C21, the check itself: with the flag on, a driver and a page that can   *)
(* be queried, raise_if_error_banner raises exactly when some alert is      *)
(* displayed and has "alert-error" in its class or the error word in its    *)
(* text, in any letter case, either signal alone sufficing; otherwise it    *)
(* returns.                                                                 *)
C21_BannerMatching ==
    ( /\ applied.fn = "raise_if_error_banner"
      /\ applied.flag /\ applied.drv /\ Readable(applied.page) ) =>
        /\ applied.ret \in {"ok", "banner"}
        /\ applied.ret = "banner" <=>
               \E i \in 1..Len(applied.page.alerts) : MatchingAlert(applied.page.alerts[i])

(* The check raised on an alert that matches by a capital-letter text only, *)
(* next to an alert that is not displayed.                                  *)
C21_BannerMatching_Witness ==
    /\ applied.fn = "raise_if_error_banner"
    /\ applied.flag /\ applied.drv /\ Readable(applied.page)
    /\ applied.ret = "banner"
    /\ Len(applied.page.alerts) = 2
    /\ ~applied.page.alerts[1].displayed
    /\ applied.page.alerts[2].class = << >>
    /\ applied.page.alerts[2].text = <<"CYR_O", "CYR_SH", "CYR_I", "CYR_B", "CYR_K", "CYR_A">>

(* A call of Step k did what it was asked to (nothing timed out, the click *)
(* was performed) and an enabled check of that call met a visible matching *)
(* banner.                                                                 *)
RevealedBanner(k) ==
    \/ /\ lastCall.step = k
       /\ lastCall.flag
       /\ ~lastCall.timed_out
       /\ lastCall.op \in ClickOps => lastCall.clicked
       /\ lastCall.banner_at_check
    \/ [step |-> k, clicked |-> TRUE] \in discarded

CapturesWorked == \A i \in EvIdx("capture") : trace[i].info = "ok"

(* C21: the enabled banner check raises for a visible alert exactly when    *)
(* its class or its text carries the error signal, and a Step whose action  *)
(* succeeded mechanically but revealed such a banner is recorded Failed in  *)
(* the report, not Passed (stated for the runs whose screenshot captures    *)
(* work).                                                                   *)
C21_RevealedBannerFailsStep ==
    /\ (lastCall.flag /\ lastCall.result = "banner") => lastCall.banner_at_check
    /\ \A k \in 1..NumSteps(script) :
          (Done /\ RevealedBanner(k) /\ CapturesWorked) =>
              /\ Len(stdout) = 1
              /\ RecordedAs(stdout[1], k, "0")
              /\ ~RecordedAs(stdout[1], k, "1")

(* C22: finalize is guarded against a second call: once finalize has been  *)
(* called on a run result, a further finalize call is rejected or changes   *)
(* nothing, so total_duration and the finalized message and error (the      *)
(* fields only finalize writes) stay as the first call left them.           *)
C22_FinalizeGuarded ==
    (applied.unit = "TestResult" /\ applied.finalizes >= 1) =>
        /\ test_result.total_duration = applied.first.total_duration
        /\ test_result.message = applied.first.message
        /\ test_result.error = applied.first.error

----------------------------------------------------------------------------
Finalized == EvIdx("finalize") # {}

(* C23 as claimed: the run result is mutated only by recording a Step and   *)
(* by finalize, so until finalize is called every field but steps, success  *)
(* and status is as the constructor left it; finalize is called at most     *)
(* once in a run.                                                           *)
C23_Original ==
    /\ Cardinality(EvIdx("finalize")) <= 1
    /\ ~Finalized =>
          test_result = [TestResultInit EXCEPT !.steps = test_result.steps,
                                               !.success = test_result.success,
                                               !.status = test_result.status]

(* What a step of the run may do to the run result: record a Step, attach  *)
(* the screenshot, note message and error of the failed Step (test_dl's     *)
(* log_test_result writes the two fields directly), note the route drawn    *)
(* and the order created (test_dl), or finalize.                            *)
MutatesBy(old, new) ==
    \/ new = [old EXCEPT !.steps = new.steps, !.success = new.success,
                         !.status = new.status]
    \/ new = [old EXCEPT !.screenshot = new.screenshot]
    \/ script = "test_dl" /\ new = [old EXCEPT !.message = new.message,
                                               !.error = new.error]
    \/ script = "test_dl" /\ new = [old EXCEPT !.selected_route = new.selected_route]
    \/ script = "test_dl" /\ new = [old EXCEPT !.order_id = new.order_id]
    \/ /\ Len(trace') = Len(trace) + 1
       /\ trace'[Len(trace')].ev = "finalize"

(* C23: the run result is mutated only by recording a Step, by attaching    *)
(* the diagnostic screenshot, by the failure note of test_dl's step         *)
(* wrapper, by test_dl's notes of the route and of the order id, and by     *)
(* finalize; finalize is called at most once in a run, and once it   *)
(* has been called the run result stays as it is up to the report and       *)
(* beyond.                                                                  *)
C23_Lifecycle ==
    [][ /\ MutatesBy(test_result, test_result')
        /\ Finalized => /\ test_result' = test_result
                        /\ Len(trace') > Len(trace) => trace'[Len(trace')].ev # "finalize"
      ]_vars

(* A failed run whose result got a Step record, a screenshot and one        *)
(* finalize call, and whose report is the result as finalize left it.       *)
C23_Witness ==
    /\ Done
    /\ Cardinality(EvIdx("finalize")) = 1
    /\ test_result.screenshot # 0
    /\ Len(test_result.steps) >= 2
    /\ Len(stdout) = 1
    /\ stdout[1] = to_dict(script, test_result)

----------------------------------------------------------------------------
(* C24: when the credentials are missing the run fails at once as a         *)
(* configuration failure: no Step action is attempted, nothing is retried,  *)
(* and the report has an empty steps map, success false and the             *)
(* configuration error; the exit code is 1.                                 *)
C24_MissingCredentials ==
    ~hasCreds =>
        /\ ExecIdx = {}
        /\ EvIdx("recovery") = {}
        /\ Done =>
              /\ Len(stdout) = 1
              /\ stdout[1].steps = << >>
              /\ stdout[1].success = FALSE
              /\ stdout[1].error.e.cause = "no_credentials"
              /\ exitCode = 1

----------------------------------------------------------------------------
ClickFailures == {"not_found", "banner", "click_failed", "webdriver"}

(* C25: a click_element call ends in success, having performed the click,   *)
(* or in a raised failure: whatever value is passed for retries, it never   *)
(* returns normally without a click having been performed.                  *)
C25_NoSilentNoOp ==
    (applied.unit = "click_element" /\ applied.fn = "click_element") =>
        /\ applied.ret \in {"running", "returned"} \cup ClickFailures
        /\ applied.ret = "returned" => applied.clicked

----------------------------------------------------------------------------
(* C26: whatever add_step and finalize calls have been made on a run        *)
(* result, its status is "1" exactly when success is true and "0" exactly   *)
(* when success is false.                                                   *)
C26_StatusMirrorsSuccess ==
    applied.unit = "TestResult" =>
        /\ test_result.status = "1" <=> test_result.success
        /\ test_result.status = "0" <=> ~test_result.success

(* A Step was recorded Failed and a later finalize call set success again. *)
C26_Witness ==
    /\ applied.unit = "TestResult"
    /\ applied.fn = "finalize"
    /\ \E i \in 1..Len(test_result.steps) : test_result.steps[i].status = "0"
    /\ test_result.success
    /\ test_result.status = "1"

----------------------------------------------------------------------------
(* C27: in every emitted report the error text is present exactly when the  *)
(* overall status is Failed; the report of a Passed run carries no error    *)
(* (null, or the key left out).                                             *)
C27_ErrorIffFailed ==
    \A i \in 1..Len(stdout) :
        /\ stdout[i].error # NoError <=> stdout[i].status = "0"
        /\ stdout[i].status = "1" =>
              stdout[i].error = NoError /\ (script = "lks" => ~stdout[i].has_error_key)
        /\ stdout[i].status = "0" => stdout[i].has_error_key

(* A report with status "0" and an error text has been emitted. *)
C27_Witness ==
    /\ Done
    /\ Len(stdout) = 1
    /\ stdout[1].status = "0"
    /\ stdout[1].error # NoError
    /\ stdout[1].steps # << >>

----------------------------------------------------------------------------
(* C28: when a run fails at a Step, the message of the emitted report       *)
(* mentions the number of that Step, the first and only failing one, and    *)
(* the Step of that number is the one recorded with status "0".             *)
C28_MessageNamesFailedStep ==
    (Done /\ FailedStep > 0) =>
        /\ Len(stdout) = 1
        /\ stdout[1].message = [kind |-> "step_failed", step |-> FailedStep]
        /\ \A i \in 1..Len(stdout[1].steps) :
              stdout[1].steps[i].status = "0" <=> stdout[1].steps[i].name = FailedStep
        /\ RecordedAs(stdout[1], FailedStep, "0")

----------------------------------------------------------------------------
(* The failure of the failed Step is that of a wait for a locator that did *)
(* not appear in time (itrans_zd's first bare wait is for the ready state, *)
(* not for a locator; the text itrans makes of a bare wait's timeout is a  *)
(* traceback and is left out here).                                        *)
WaitedInVain(cause) ==
    \/ cause \in {"not_found", "tab_not_found", "not_visible", "missing_tabs"}
    \/ /\ cause = "timeout"
       /\ script = "itrans_zd"
       /\ gi = Len(StepBody(script, stepNo))

(* C29: when a Step fails because it waited for a locator that never        *)
(* appeared within the timeout, the error text of the report contains that  *)
(* locator.                                                                 *)
C29_ErrorNamesLocator ==
    ( /\ Done
      /\ script \in BannerScripts
      /\ FailedStep > 0
      /\ Len(stdout) = 1
      /\ stdout[1].error.prefix = "step"
      /\ WaitedInVain(stdout[1].error.e.cause) ) =>
        NamesLocator(script, stdout[1].error.e.cause)

----------------------------------------------------------------------------
ClickEnded ==
    /\ applied.unit = "click_element"
    /\ applied.fn = "click_element"
    /\ applied.ret # "running"

----------------------------------------------------------------------------
ClickExhausted == ClickEnded /\ applied.ret = "click_failed"

(* C31: the message of a click that failed after exhausting its attempts   *)
(* includes both the locator and the attempt count.                        *)
C31_ClickFailureMessage ==
    ClickExhausted =>
        /\ Includes(Str(applied.xpath), applied.msg)
        /\ Includes(Num(applied.retries), applied.msg)

----------------------------------------------------------------------------
(* C32: when element.click() raises in click_element and a script click on *)
(* the same element would work, the script click is made, the call ends    *)
(* in that iteration with the click performed (returning, or raising the   *)
(* banner failure of the check that follows) and no further attempt is     *)
(* made.                                                                   *)
C32_ScriptClickFallback ==
    (applied.unit = "click_element" /\ applied.fn = "click_element"
        /\ applied.click = "script") =>
        /\ applied.clicked
        /\ applied.ret \in {"returned", "banner"}
        /\ applied.try = applied.attempts

----------------------------------------------------------------------------
(* The alerts displayed before alert i were all read and did not match. *)
ReadOnTo(page, i) ==
    \A j \in 1..(i - 1) :
        page.alerts[j].displayed =>
            page.alerts[j].fails = "none" /\ ~MatchingAlert(page.alerts[j])

(* The check ran into a driver error: in find_elements, in is_displayed()  *)
(* of some alert, or in reading the class or the text of a displayed alert *)
(* it got to.                                                              *)
QueryFailed(page) ==
    \/ page.query # "ok"
    \/ \E i \in 1..Len(page.alerts) : page.alerts[i].fails = "is_displayed"
    \/ \E i \in 1..Len(page.alerts) :
          /\ page.alerts[i].displayed
          /\ page.alerts[i].fails \in {"get_attribute", "text"}
          /\ ReadOnTo(page, i)

(* The check got to a displayed matching alert and read it. *)
BannerDetected(page) ==
    /\ page.query = "ok"
    /\ \A i \in 1..Len(page.alerts) : page.alerts[i].fails # "is_displayed"
    /\ \E i \in 1..Len(page.alerts) :
          /\ MatchingAlert(page.alerts[i])
          /\ page.alerts[i].fails = "none"
          /\ ReadOnTo(page, i)

(* C33: an enabled banner check that runs into a driver error while it     *)
(* queries the page returns normally: the error is neither reported as a   *)
(* banner nor passed on to the caller; a banner the check got to before    *)
(* any such error is raised, not swallowed.                                *)
C33_QueryErrorsSwallowed ==
    ( /\ applied.fn = "raise_if_error_banner"
      /\ applied.flag /\ applied.drv ) =>
        /\ applied.ret \in {"ok", "banner"}
        /\ QueryFailed(applied.page) => applied.ret = "ok"
        /\ BannerDetected(applied.page) => applied.ret = "banner"

(* The check read a displayed alert that did not match, the text of the    *)
(* next one (a displayed alert of class alert-error) raised, and the check *)
(* returned.                                                               *)
C33_Witness ==
    /\ applied.fn = "raise_if_error_banner"
    /\ applied.flag /\ applied.drv
    /\ applied.page.query = "ok"
    /\ Len(applied.page.alerts) = 2
    /\ applied.page.alerts[1].displayed
    /\ applied.page.alerts[1].fails = "none"
    /\ applied.page.alerts[2].displayed
    /\ applied.page.alerts[2].fails = "text"
    /\ is_error_by_class(applied.page.alerts[2])
    /\ applied.ret = "ok"

----------------------------------------------------------------------------
RecoveryIdx == EvIdx("recovery")

LastRecoveryIdx == CHOOSE i \in RecoveryIdx : \A j \in RecoveryIdx : j <= i

(* C34: a recovery (refresh, wait for the ready state) that fails is        *)
(* swallowed: no exception of the recovery is ever being handled, the      *)
(* failed recovery is followed by the next attempt of the same Step, and   *)
(* when that Step fails in the end the error of the report is the failure  *)
(* of the Step's last attempt.                                             *)
C34_RecoveryFailureSwallowed ==
    /\ exc.kind # "recovery"
    /\ (lastRecovery = "fail" /\ RecoveryIdx # {}) =>
          LET i == LastRecoveryIdx
          IN /\ IF i = Len(trace)
                THEN /\ pc = "step_action"
                     /\ stepNo = trace[i].step
                     /\ attempt = Cardinality(ExecOf(stepNo)) + 1
                ELSE /\ trace[i + 1].ev = "exec"
                     /\ trace[i + 1].step = trace[i].step
             /\ (Done /\ FailedStep = trace[i].step) =>
                   /\ Len(stdout) = 1
                   /\ stdout[1].error.e =
                         Exc("step", FailedStep, MaxAttempts(script, FailedStep),
                             LastExec.info)

(* The last recovery of the run failed, the Step was attempted again and   *)
(* failed for good.                                                        *)
C34_Witness ==
    /\ Done
    /\ lastRecovery = "fail"
    /\ RecoveryIdx # {}
    /\ FailedStep = trace[LastRecoveryIdx].step
    /\ Len(stdout) = 1
    /\ stdout[1].error.e.kind = "step"

----------------------------------------------------------------------------
(* C35: every attempted Step has exactly one StepResult in the report; the *)
(* duration recorded for a Step covers all of its attempts and recoveries  *)
(* (each of which takes a tick of the clock), and no Step's duration       *)
(* exceeds the report's total_duration.                                    *)
C35_StepDurations ==
    /\ \A i \in 1..Len(test_result.steps) :
          LET k == test_result.steps[i].name
          IN test_result.steps[i].duration >=
                 Cardinality(ExecOf(k)) + Cardinality(RecoveryOf(k))
    /\ (Done /\ Len(stdout) = 1) =>
          /\ \A k \in 1..NumSteps(script) :
                ExecOf(k) # {} => Cardinality(ResultsOf(stdout[1].steps, k)) = 1
          /\ \A i \in 1..Len(stdout[1].steps) :
                stdout[1].steps[i].duration <= stdout[1].total_duration

----------------------------------------------------------------------------
(* No loop has gone beyond its range: the Step's retry loop, and the loop  *)
(* of the click being made.                                                *)
LoopsBounded ==
    /\ pc \in {"step_action", "recovery"} => attempt <= MaxAttempts(script, stepNo)
    /\ click_try <= ClickRetries
    /\ \A k \in 1..NumSteps(script) : Cardinality(ExecOf(k)) <= MaxAttempts(script, k)

----------------------------------------------------------------------------
(* C37: element_is_present returns False, without raising, when the        *)
(* element does not appear within the timeout and no banner is detected,   *)
(* and True when it appears.                                               *)
C37_ElementIsPresent ==
    ( /\ applied.unit = "element_is_present"
      /\ applied.fn = "element_is_present"
      /\ raise_if_error_banner(applied.flag, TRUE, applied.r.page) # "banner" ) =>
        /\ applied.r.outcome = "timeout" => applied.ret = "False"
        /\ applied.r.outcome = "ok" => applied.ret = "True"

(* C36, the loop of open_site_with_retries: it makes at most                *)
(* OpenSiteRetries attempts and ends by returning or by raising.           *)
C36_OpenSiteBounded ==
    (applied.unit = "open_site_with_retries" /\ applied.fn = "open_site_with_retries") =>
        /\ applied.attempts <= OpenSiteRetries
        /\ applied.ret = "open_site" => applied.attempts = OpenSiteRetries
        /\ applied.try <= OpenSiteRetries + 1

----------------------------------------------------------------------------
(* Events in which the browser session is used. *)
DriverEvents == {"exec", "recovery", "capture", "save_file"}

(* C38: the session is released only after the report has been printed and *)
(* after every screenshot capture of the run, and nothing is done with the *)
(* session once it is released: the entry point is past its finally        *)
(* clause, and every page action, recovery and capture precedes the        *)
(* release.                                                                *)
C38_ReleasedAfterReport ==
    /\ driver = "quit" => pc \in {"exit", "done"}
    /\ \A q \in EvIdx("quit") :
          /\ Len(stdout) = 1
          /\ \E p \in EvIdx("print") : p < q
          /\ \A i \in 1..Len(trace) : trace[i].ev \in DriverEvents => i < q

(* A run that failed at a Step took its screenshot, printed its report and *)
(* then released the session.                                              *)
C38_Witness ==
    /\ Done
    /\ driver = "quit"
    /\ FailedStep > 0
    /\ EvIdx("capture") # {}
    /\ Len(stdout) = 1

----------------------------------------------------------------------------
(* Step test_09_order_create is recorded Passed in steps. *)
OrderStepPassed(steps) ==
    \E i \in ResultsOf(steps, OrderCreateStep) : steps[i].status = "1"

(* C39: in test_dl the order id of the result is set exactly when an        *)
(* attempt of test_09_order_create has passed, and it is the number that    *)
(* attempt extracted; the report's order_id is non-null if and only if      *)
(* Step 9 is recorded Passed: it is null when the run stopped before Step 9 *)
(* or Step 9 failed on every attempt.                                       *)
C39_OrderId ==
    script = "test_dl" =>
        /\ test_result.order_id # 0 <=>
               \E i \in ExecOf(OrderCreateStep) : trace[i].info = "pass"
        /\ test_result.order_id # 0 =>
               test_result.order_id = OrderNo(Cardinality(ExecOf(OrderCreateStep)))
        /\ (Done /\ Len(stdout) = 1) =>
               /\ stdout[1].order_id = test_result.order_id
               /\ stdout[1].order_id # 0 <=> OrderStepPassed(stdout[1].steps)
               /\ FailedStep \in 1..OrderCreateStep => stdout[1].order_id = 0

(* Step 9 failed once, was retried and passed; the run failed later and    *)
(* its report carries the order number of the second attempt.              *)
C39_Witness ==
    /\ Done
    /\ script = "test_dl"
    /\ Cardinality(FailedExecOf(OrderCreateStep)) = 1
    /\ FailedStep > OrderCreateStep
    /\ Len(stdout) = 1
    /\ stdout[1].order_id = OrderNo(2)

====
